---- MODULE Spec2Model ----
(***************************************************************************)
(* Concox V5 TCP server: the frame codec, the per-connection receive loop, *)
(* the opcode dispatcher with its handlers, the device registry, the       *)
(* command encoder and the pending-command tracker with its timers.        *)
(*                                                                         *)
(* Bytes are integers 0..255 and buffers are sequences of bytes.  Buffer   *)
(* offsets are 0-based as in the JavaScript source; At and Slice convert.  *)
(***************************************************************************)
EXTENDS Integers, Sequences, FiniteSets, TLC

VARIABLES
    sockets,          \* socket -> "idle" | "open" | "closed"
    deviceImei,       \* socket -> socket.deviceImei (Null or an IMEI string)
    buffer,           \* socket -> the receive buffer of the connection's closure
    clients,          \* this.clients: a Map, kept as its set of entries
    pendingCommands,  \* socket -> socket.pendingCommands, kept as its set of entries
    timers,           \* the armed setTimeout callbacks of sendCommand
    inflight,         \* commands written to a device that it has not answered yet
    now,              \* Date.now(), in milliseconds
    step,             \* the handler that ran last, with what it logged and wrote
    stream,           \* codec harness: the byte stream a device sends
    fed,              \* codec harness: how many bytes of stream were delivered
    cuts,             \* codec harness: the sizes of the chunks delivered so far
    rxframes,         \* codec harness: the frames the receive loop parsed so far
    writableLength    \* socket -> socket.writableLength: bytes written to the
                      \* socket that the transport has not taken yet

vars == <<sockets, deviceImei, buffer, clients, pendingCommands, timers,
          inflight, now, step, stream, fed, cuts, rxframes, writableLength>>

codecVars == <<stream, fed, cuts, rxframes>>

----------------------------------------------------------------------------
(* Bounds of the model *)

\* the bound on the bytes queued on a connection: the highWaterMark of a
\* socket's writable side
Watermark == 16384

NumSockets == 2
MaxTime == 90000
TickMs == 30000
MaxTimers == 1
MaxCommandTimers == 2
MaxSegments == 2
MaxChunks == 3
MaxChunkFrames == 2
SplitAt == 7

----------------------------------------------------------------------------
(* Byte and buffer helpers *)

Min(a, b) == IF a < b THEN a ELSE b

RECURSIVE Xor(_, _)
Xor(a, b) ==
    IF a = 0 THEN b
    ELSE IF b = 0 THEN a
    ELSE (((a % 2) + (b % 2)) % 2) + 2 * Xor(a \div 2, b \div 2)

RECURSIVE And(_, _)
And(a, b) ==
    IF a = 0 \/ b = 0 THEN 0
    ELSE ((a % 2) * (b % 2)) + 2 * And(a \div 2, b \div 2)

\* buf[i] with a 0-based index
At(buf, i) == buf[i + 1]

\* buf.slice(a, b) for 0 <= a: both ends are clamped to the buffer
Slice(buf, a, b) ==
    SubSeq(buf, Min(a, Len(buf)) + 1, Min(b, Len(buf)))

\* buf.slice(a)
SliceFrom(buf, a) == Slice(buf, a, Len(buf))

\* buf.readUInt16BE(off) is a RangeError outside the buffer
CanReadUInt16BE(buf, off) == off >= 0 /\ off + 2 <= Len(buf)

readUInt16BE(buf, off) == At(buf, off) * 256 + At(buf, off + 1)

readUInt32BE(buf, off) == readUInt16BE(buf, off) * 65536 + readUInt16BE(buf, off + 2)

\* buf.indexOf(byte, from): the first index >= from holding byte, or -1
indexOf(buf, byte, from) ==
    LET hits == {i \in from..(Len(buf) - 1) : At(buf, i) = byte}
    IN  IF hits = {} THEN -1 ELSE CHOOSE i \in hits : \A j \in hits : i <= j

hi8(n) == (n \div 256) % 256

lo8(n) == n % 256

----------------------------------------------------------------------------
(* CRC-ITU *)

crctab16 == <<
    0, 4489, 8978, 12955, 17956, 22445, 25910, 29887,
    35912, 40385, 44890, 48851, 51820, 56293, 59774, 63735,
    4225, 264, 13203, 8730, 22181, 18220, 30135, 25662,
    40137, 36160, 49115, 44626, 56045, 52068, 63999, 59510,
    8450, 12427, 528, 5017, 26406, 30383, 17460, 21949,
    44362, 48323, 36440, 40913, 60270, 64231, 51324, 55797,
    12675, 8202, 4753, 792, 30631, 26158, 21685, 17724,
    48587, 44098, 40665, 36688, 64495, 60006, 55549, 51572,
    16900, 21389, 24854, 28831, 1056, 5545, 10034, 14011,
    52812, 57285, 60766, 64727, 34920, 39393, 43898, 47859,
    21125, 17164, 29079, 24606, 5281, 1320, 14259, 9786,
    57037, 53060, 64991, 60502, 39145, 35168, 48123, 43634,
    25350, 29327, 16404, 20893, 9506, 13483, 1584, 6073,
    61262, 65223, 52316, 56789, 43370, 47331, 35448, 39921,
    29575, 25102, 20629, 16668, 13731, 9258, 5809, 1848,
    65487, 60998, 56541, 52564, 47595, 43106, 39673, 35696,
    33800, 38273, 42778, 46739, 49708, 54181, 57662, 61623,
    2112, 6601, 11090, 15067, 20068, 24557, 28022, 31999,
    38025, 34048, 47003, 42514, 53933, 49956, 61887, 57398,
    6337, 2376, 15315, 10842, 24293, 20332, 32247, 27774,
    42250, 46211, 34328, 38801, 58158, 62119, 49212, 53685,
    10562, 14539, 2640, 7129, 28518, 32495, 19572, 24061,
    46475, 41986, 38553, 34576, 62383, 57894, 53437, 49460,
    14787, 10314, 6865, 2904, 32743, 28270, 23797, 19836,
    50700, 55173, 58654, 62615, 32808, 37281, 41786, 45747,
    19012, 23501, 26966, 30943, 3168, 7657, 12146, 16123,
    54925, 50948, 62879, 58390, 37033, 33056, 46011, 41522,
    23237, 19276, 31191, 26718, 7393, 3432, 16371, 11898,
    59150, 63111, 50204, 54677, 41258, 45219, 33336, 37809,
    27462, 31439, 18516, 23005, 11618, 15595, 3696, 8185,
    63375, 58886, 54429, 50452, 45483, 40994, 37561, 33584,
    31687, 27214, 22741, 18780, 15843, 11370, 7921, 3960
>>

RECURSIVE crcLoop(_, _, _, _)
\* the for loop over data[i..end), run as its first half then its second
crcLoop(data, i, end, fcs) ==
    IF i >= end THEN fcs
    ELSE IF end - i = 1
         THEN Xor(fcs \div 256, crctab16[(Xor(fcs, At(data, i)) % 256) + 1])
    ELSE LET mid == i + ((end - i) \div 2)
             half == crcLoop(data, i, mid, fcs)
         IN  IF half >= 0 THEN crcLoop(data, mid, end, half) ELSE half

\* a CRC without the final one's complement
calculateCRCITUNotNegated(data, startIndex, endIndex) ==
    crcLoop(data, startIndex, endIndex, 65535)

calculateCRCITU(data, startIndex, endIndex) ==
    65535 - crcLoop(data, startIndex, endIndex, 65535)

----------------------------------------------------------------------------
(* Frame codec *)

isLongPacket(packet) == At(packet, 0) = 121 /\ At(packet, 1) = 121

getHeaderSize(packet) == IF isLongPacket(packet) THEN 4 ELSE 3

\* parsePacket returns null (kind "null": wait for more bytes), a record
\* without a packet (kind "resync") or a record with one (kind "frame").
ParseNull == [kind |-> "null", packet |-> <<>>, protocolNumber |-> -1, remaining |-> <<>>]

\* a codec that does not wait for the rest of a frame
parseFrameNoWait(buf, headerSize, lengthValue) ==
    LET totalSize == headerSize + lengthValue + 2
    IN  [kind |-> "frame",
         packet |-> Slice(buf, 0, totalSize),
         protocolNumber |-> At(buf, headerSize),
         remaining |-> SliceFrom(buf, totalSize)]

\* a codec that skips a frame whose stop bytes are not 0D 0A
parseFrameCheckingStop(buf, headerSize, lengthValue) ==
    LET totalSize == headerSize + lengthValue + 2
    IN  IF Len(buf) < totalSize THEN ParseNull
        ELSE IF At(buf, totalSize - 2) # 13 \/ At(buf, totalSize - 1) # 10
        THEN [kind |-> "resync", packet |-> <<>>, protocolNumber |-> -1,
              remaining |-> SliceFrom(buf, totalSize)]
        ELSE [kind |-> "frame",
              packet |-> Slice(buf, 0, totalSize),
              protocolNumber |-> At(buf, headerSize),
              remaining |-> SliceFrom(buf, totalSize)]

parseFrame(buf, headerSize, lengthValue) ==
    LET totalSize == headerSize + lengthValue + 2
    IN  IF Len(buf) < totalSize THEN ParseNull
        ELSE [kind |-> "frame",
              packet |-> Slice(buf, 0, totalSize),
              protocolNumber |-> At(buf, headerSize),
              remaining |-> SliceFrom(buf, totalSize)]

\* a codec that resumes one byte after the start byte it found
parseResyncPastStart(buf) ==
    LET next78 == indexOf(buf, 120, 1)
        next79 == indexOf(buf, 121, 1)
        nextStart == IF next78 # -1 /\ next79 # -1 THEN Min(next78, next79)
                     ELSE IF next78 # -1 THEN next78
                     ELSE IF next79 # -1 THEN next79
                     ELSE -1
    IN  [kind |-> "resync", packet |-> <<>>, protocolNumber |-> -1,
         remaining |-> IF nextStart = -1 THEN <<>>
                       ELSE SliceFrom(buf, nextStart + 1)]

\* a codec that waits for more bytes when it finds no start byte
parseResyncWaiting(buf) ==
    LET next78 == indexOf(buf, 120, 1)
        next79 == indexOf(buf, 121, 1)
        nextStart == IF next78 # -1 /\ next79 # -1 THEN Min(next78, next79)
                     ELSE IF next78 # -1 THEN next78
                     ELSE IF next79 # -1 THEN next79
                     ELSE -1
    IN  IF nextStart = -1 THEN ParseNull
        ELSE [kind |-> "resync", packet |-> <<>>, protocolNumber |-> -1,
              remaining |-> SliceFrom(buf, nextStart)]

parseResync(buf) ==
    LET next78 == indexOf(buf, 120, 1)
        next79 == indexOf(buf, 121, 1)
        nextStart == IF next78 # -1 /\ next79 # -1 THEN Min(next78, next79)
                     ELSE IF next78 # -1 THEN next78
                     ELSE IF next79 # -1 THEN next79
                     ELSE -1
    IN  [kind |-> "resync", packet |-> <<>>, protocolNumber |-> -1,
         remaining |-> IF nextStart = -1 THEN <<>> ELSE SliceFrom(buf, nextStart)]

\* a codec that leaves the stop bytes of a frame in the buffer
parsePacketKeepingStop(buf) ==
    LET result == IF Len(buf) < 5 THEN ParseNull
                  ELSE IF At(buf, 0) = 120 /\ At(buf, 1) = 120
                       THEN parseFrame(buf, 3, At(buf, 2))
                  ELSE IF At(buf, 0) = 121 /\ At(buf, 1) = 121
                       THEN IF Len(buf) < 6 THEN ParseNull
                            ELSE parseFrame(buf, 4, readUInt16BE(buf, 2))
                  ELSE parseResync(buf)
    IN  IF result.kind = "frame"
        THEN [result EXCEPT !.remaining = SliceFrom(buf, Len(result.packet) - 2)]
        ELSE result

parsePacket(buf) ==
    IF Len(buf) < 5 THEN ParseNull
    ELSE IF At(buf, 0) = 120 /\ At(buf, 1) = 120
         THEN parseFrame(buf, 3, At(buf, 2))
    ELSE IF At(buf, 0) = 121 /\ At(buf, 1) = 121
         THEN IF Len(buf) < 6 THEN ParseNull
              ELSE parseFrame(buf, 4, readUInt16BE(buf, 2))
    ELSE parseResync(buf)


----------------------------------------------------------------------------
(* Protocol numbers *)

PROTOCOL_NUMBERS ==
    [LOGIN |-> 1, HEARTBEAT |-> 19, GPS_LOCATION |-> 34, ALARM |-> 38,
     LBS_ALARM |-> 25, ALARM_HVT001 |-> 39, LBS_EXTENSION |-> 40, WIFI |-> 44,
     ONLINE_COMMAND |-> 128, COMMAND_RESPONSE |-> 33,
     COMMAND_RESPONSE_JM01 |-> 21, TIME_CALIBRATION |-> 138,
     INFORMATION_TRANSMISSION |-> 148, EXTERNAL_DEVICE_TRANSFER |-> 155,
     EXTERNAL_MODULE_TRANSMISSION |-> 156, LARGE_FILE_TRANSFER |-> 141]

----------------------------------------------------------------------------
(* IMEI strings: a string of hex digits is the sequence of its digit values *)

\* null, as opposed to the empty string <<>>
Null == <<-1>>

\* JavaScript truthiness of socket.deviceImei
Truthy(imei) == imei # Null /\ imei # <<>>

RECURSIVE hexString(_)
hexString(bytes) ==
    IF bytes = <<>> THEN <<>>
    ELSE <<Head(bytes) \div 16, Head(bytes) % 16>> \o hexString(Tail(bytes))

RECURSIVE stripLeadingZeros(_)
stripLeadingZeros(str) ==
    IF str # <<>> /\ Head(str) = 0 THEN stripLeadingZeros(Tail(str)) ELSE str

\* a decoder that keeps the leading zeros
extractIMEIKeepingZeros(imeiBytes) ==
    SubSeq(hexString(SubSeq(imeiBytes, 1, 8)), 1, 15)

extractIMEI(imeiBytes) ==
    LET imei == stripLeadingZeros(hexString(SubSeq(imeiBytes, 1, 8)))
    IN  IF Len(imei) > 15 THEN SubSeq(imei, 1, 15) ELSE imei

----------------------------------------------------------------------------
(* Login (0x01) *)

\* extractIMEI reads imeiBytes[0..7]: a TypeError when the slice is shorter
parseLogin(packet) ==
    LET headerSize == getHeaderSize(packet)
        imeiBytes == Slice(packet, headerSize + 1, headerSize + 9)
    IN  IF Len(imeiBytes) < 8 \/ ~CanReadUInt16BE(packet, Len(packet) - 6)
        THEN [threw |-> TRUE, imei |-> Null, serialNumber |-> 0]
        ELSE [threw |-> FALSE,
              imei |-> extractIMEI(imeiBytes),
              serialNumber |-> readUInt16BE(packet, Len(packet) - 6)]

\* an acknowledgment whose length byte counts one byte too many
simpleAckLength6(protocolNumber, serialNumber) ==
    LET buf == <<120, 120, 6, protocolNumber, hi8(serialNumber), lo8(serialNumber)>>
        crc == calculateCRCITU(buf, 2, 6)
    IN  buf \o <<hi8(crc), lo8(crc)>> \o <<13, 10>>

\* The 0x05-length acknowledgment shared by login, heartbeat and the alarms
simpleAck(protocolNumber, serialNumber) ==
    LET buf == <<120, 120, 5, protocolNumber, hi8(serialNumber), lo8(serialNumber)>>
        crc == calculateCRCITU(buf, 2, 6)
    IN  buf \o <<hi8(crc), lo8(crc)>> \o <<13, 10>>

\* a login acknowledgment that always carries sequence 0
createLoginAckZeroSerial(serialNumber) == simpleAck(1, 0)

createLoginAck(serialNumber) == simpleAck(1, serialNumber)

----------------------------------------------------------------------------
(* Heartbeat (0x13) *)

\* Reading past the end of a Buffer yields undefined, which the bit tests
\* turn into 0; only readUInt16BE can throw.
byteOrUndefined(packet, i) == IF i < Len(packet) THEN At(packet, i) ELSE 0

parseHeartbeat(packet) ==
    LET headerSize == getHeaderSize(packet)
        terminalInfo == byteOrUndefined(packet, headerSize + 1)
    IN  IF ~CanReadUInt16BE(packet, Len(packet) - 6)
        THEN [threw |-> TRUE, terminalInfo |-> 0, batteryLevel |-> 0,
              gsmSignal |-> 0, oilElectricityDisconnected |-> FALSE,
              serialNumber |-> 0]
        ELSE [threw |-> FALSE,
              terminalInfo |-> terminalInfo,
              batteryLevel |-> byteOrUndefined(packet, headerSize + 2),
              gsmSignal |-> byteOrUndefined(packet, headerSize + 3),
              oilElectricityDisconnected |-> And(terminalInfo, 128) # 0,
              serialNumber |-> readUInt16BE(packet, Len(packet) - 6)]

createHeartbeatAck(serialNumber) == simpleAck(19, serialNumber)

----------------------------------------------------------------------------
(* Command responses (0x21 and 0x15) *)

Whitespace == {9, 10, 11, 12, 13, 32}

RECURSIVE trimStart(_)
trimStart(str) ==
    IF str # <<>> /\ Head(str) \in Whitespace THEN trimStart(Tail(str)) ELSE str

RECURSIVE trimEnd(_)
trimEnd(str) ==
    IF str # <<>> /\ str[Len(str)] \in Whitespace
    THEN trimEnd(SubSeq(str, 1, Len(str) - 1)) ELSE str

\* toString("ascii") clears bit 7; replace(/\0/g, "") drops the NUL characters
RECURSIVE asciiNoNul(_)
asciiNoNul(bytes) ==
    IF bytes = <<>> THEN <<>>
    ELSE (IF Head(bytes) % 128 = 0 THEN <<>> ELSE <<Head(bytes) % 128>>)
         \o asciiNoNul(Tail(bytes))

RECURSIVE asciiString(_)
asciiString(bytes) ==
    IF bytes = <<>> THEN <<>>
    ELSE <<Head(bytes) % 128>> \o asciiString(Tail(bytes))

parseCommandResponse(packet) ==
    LET headerSize == getHeaderSize(packet)
        dataStart == headerSize + 1
        long == isLongPacket(packet)
        responseStart == dataStart + 5
        responseEnd == Len(packet) - 6
        actualResponseLength == responseEnd - responseStart
        \* a short packet's length field read past the end is undefined,
        \* and Math.min(undefined, n) is NaN: the slice is then empty
        fieldDefined == long \/ dataStart + 4 < Len(packet)
        responseLengthField ==
            IF long THEN readUInt16BE(packet, dataStart + 4)
            ELSE At(packet, dataStart + 4)
        responseLength ==
            IF fieldDefined THEN Min(responseLengthField, actualResponseLength) ELSE 0
        threw == (long /\ ~CanReadUInt16BE(packet, dataStart + 4))
                 \/ ~CanReadUInt16BE(packet, Len(packet) - 6)
    IN  IF threw
        THEN [threw |-> TRUE, response |-> <<>>, serialNumber |-> 0]
        ELSE [threw |-> FALSE,
              response |-> trimEnd(trimStart(asciiNoNul(
                  Slice(packet, responseStart, responseStart + responseLength)))),
              serialNumber |-> readUInt16BE(packet, Len(packet) - 6)]

parseCommandResponseJM01(packet) ==
    LET headerSize == getHeaderSize(packet)
        dataStart == headerSize + 1
        responseLength == byteOrUndefined(packet, dataStart)
    IN  IF ~CanReadUInt16BE(packet, Len(packet) - 6)
        THEN [threw |-> TRUE, response |-> <<>>, serialNumber |-> 0]
        ELSE [threw |-> FALSE,
              response |-> asciiString(
                  Slice(packet, dataStart + 1, dataStart + 1 + responseLength)),
              serialNumber |-> readUInt16BE(packet, Len(packet) - 6)]

----------------------------------------------------------------------------
(* The other device opcodes.  A parser is modelled by when it throws (a    *)
(* RangeError of a read past the end, a TypeError of a method call on      *)
(* undefined) and by the fields its handler uses.                          *)

\* every parser reads the serial number at packet.length - 6
serialOf(packet) ==
    IF CanReadUInt16BE(packet, Len(packet) - 6)
    THEN readUInt16BE(packet, Len(packet) - 6) ELSE 0

\* 0x22: the last unguarded read is readUIntBE(dataStart + 23, 3)
\* latitude and longitude are kept as degrees times 1800000, the integers
\* the code divides
parseGPSLocation(packet) ==
    LET dataStart == getHeaderSize(packet) + 1
    IN  IF Len(packet) < dataStart + 26
        THEN [threw |-> TRUE, latitude |-> 0, longitude |-> 0, gpsPositioned |-> FALSE]
        ELSE LET latitude == readUInt32BE(packet, dataStart + 7)
                 longitude == readUInt32BE(packet, dataStart + 11)
                 byte1 == At(packet, dataStart + 16)
                 latitudeNS == IF And(byte1, 4) # 0 THEN "S" ELSE "N"
                 longitudeEW == IF And(byte1, 8) # 0 THEN "W" ELSE "E"
             IN  [threw |-> FALSE,
                  latitude |-> IF latitudeNS = "S" THEN -latitude ELSE latitude,
                  longitude |-> IF longitudeEW = "W" THEN -longitude ELSE longitude,
                  gpsPositioned |-> And(byte1, 16) # 0]

\* 0x26: alarmByte.toString throws when packet[length - 8] is undefined
\* and so names no alarm type
parseAlarm(packet) ==
    [threw |-> Len(packet) < 8, serialNumber |-> serialOf(packet)]

\* an acknowledgment that carries sequence 0 whatever the frame carried
createAlarmAckZeroSerial(serialNumber) == simpleAck(38, 0)

createAlarmAck(serialNumber) == simpleAck(38, serialNumber)

\* 0x19: reads up to readUIntBE(dataStart + 5, 3); alarmByte.toString and
\* languageByte.toString throw when those bytes are undefined
parseLBSAlarm(packet) ==
    LET dataStart == getHeaderSize(packet) + 1
    IN  [threw |-> Len(packet) < dataStart + 13, serialNumber |-> serialOf(packet)]

createLBSAlarmAck(serialNumber) == simpleAck(25, serialNumber)

\* 0x27: alarmByte = packet[length - 8] || packet[dataStart + 6], and
\* alarmByte.toString throws when both are missing
parseAlarmHVT001(packet) ==
    LET dataStart == getHeaderSize(packet) + 1
        first == IF Len(packet) >= 8 THEN At(packet, Len(packet) - 8) ELSE 0
        alarmUndefined == first = 0 /\ Len(packet) <= dataStart + 6
    IN  [threw |-> ~CanReadUInt16BE(packet, Len(packet) - 6) \/ alarmUndefined,
         serialNumber |-> serialOf(packet)]

createAlarmHVT001Ack(serialNumber) == simpleAck(39, serialNumber)

\* 0x28: the reads of the base stations are guarded
parseLBSExtension(packet) ==
    [threw |-> ~CanReadUInt16BE(packet, Len(packet) - 6),
     serialNumber |-> serialOf(packet)]

\* 0x2C: the main base station is read without a guard, up to
\* readUIntBE(dataStart + 11, 3)
\* the signal of an access point:  strength > 128 ? strength - 256 : strength
wifiSignal(strength) == IF strength > 128 THEN strength - 256 ELSE strength

\* the loop over the access points: MAC(6), strength(1), SSID length(1), SSID
RECURSIVE wifiAccessPoints(_, _, _, _)
wifiAccessPoints(packet, offset, i, wifiCount) ==
    IF i < wifiCount /\ offset + 8 <= Len(packet) - 6
    THEN LET strength == At(packet, offset + 6)
             ssidLength == IF At(packet, offset + 7) < 32
                           THEN At(packet, offset + 7) ELSE 32
         IN  <<wifiSignal(strength)>>
             \o wifiAccessPoints(packet, offset + 8 + ssidLength, i + 1, wifiCount)
    ELSE <<>>

parseWiFi(packet) ==
    LET dataStart == getHeaderSize(packet) + 1
        threw == Len(packet) < dataStart + 14
    IN  [threw |-> threw, serialNumber |-> serialOf(packet),
         signals |-> IF threw THEN <<>>
                     ELSE wifiAccessPoints(packet, dataStart + 53, 0,
                                           byteOrUndefined(packet, dataStart + 52))]

createWiFiResponse(serialNumber) == simpleAck(44, serialNumber)

\* 0x9B
parseExternalDeviceTransfer(packet) ==
    [threw |-> ~CanReadUInt16BE(packet, Len(packet) - 6),
     serialNumber |-> serialOf(packet)]

\* the CRC of a response that carries data starts at index 4 in a long frame
responseWithData(head, responseData, serialNumber) ==
    LET buf == head \o responseData \o <<hi8(serialNumber), lo8(serialNumber)>>
        crc == calculateCRCITU(buf, IF buf[1] = 121 THEN 4 ELSE 2, Len(buf))
    IN  buf \o <<hi8(crc), lo8(crc)>> \o <<13, 10>>

\* responseData is Null for the acknowledgment the server sends
createExternalDeviceResponse(serialNumber, responseData) ==
    IF responseData # Null
    THEN LET dataLength == Len(responseData)
             totalLength == 1 + dataLength + 2
         IN  responseWithData(
                 IF totalLength < 256
                 THEN <<120, 120, (totalLength + 2) % 256, 155, dataLength % 256>>
                 ELSE <<121, 121, hi8(totalLength + 2), lo8(totalLength + 2), 155,
                        dataLength % 256>>,
                 responseData, serialNumber)
    ELSE simpleAck(155, serialNumber)

\* 0x9C
parseExternalModuleTransmission(packet) ==
    LET dataStart == getHeaderSize(packet) + 1
    IN  [threw |-> ~CanReadUInt16BE(packet, Len(packet) - 6),
         moduleId |-> byteOrUndefined(packet, dataStart),
         serialNumber |-> serialOf(packet)]

createExternalModuleResponse(serialNumber, moduleId, responseData) ==
    IF responseData # Null
    THEN LET dataLength == Len(responseData)
             totalLength == 1 + 1 + dataLength + 2
         IN  responseWithData(
                 IF totalLength < 256
                 THEN <<120, 120, (totalLength + 2) % 256, 156, moduleId,
                        dataLength % 256>>
                 ELSE <<121, 121, hi8(totalLength + 2), lo8(totalLength + 2), 156,
                        moduleId, dataLength % 256>>,
                 responseData, serialNumber)
    ELSE LET buf == <<120, 120, 6, 156, moduleId, hi8(serialNumber),
                         lo8(serialNumber)>>
             crc == calculateCRCITU(buf, 2, 7)
         IN  buf \o <<hi8(crc), lo8(crc)>> \o <<13, 10>>

\* 0x8D: fileLength, errorCheck, startPosition and currentContentLength are
\* read without a guard; the last of them ends at errorCheckOffset + 6
parseFileTransfer(packet) ==
    LET dataStart == getHeaderSize(packet) + 1
        errorCheckType == byteOrUndefined(packet, dataStart + 5)
        errorCheckOffset == dataStart + 6 + (IF errorCheckType = 0 THEN 2
                                             ELSE IF errorCheckType = 1 THEN 16
                                             ELSE 0)
    IN  [threw |-> Len(packet) < errorCheckOffset + 6,
         serialNumber |-> serialOf(packet)]

createFileTransferAck(serialNumber, success) ==
    LET buf == <<121, 121, 0, 6, 141, IF success THEN 1 ELSE 0,
                    hi8(serialNumber), lo8(serialNumber)>>
        crc == calculateCRCITU(buf, 4, 8)
    IN  buf \o <<hi8(crc), lo8(crc)>> \o <<13, 10>>

\* 0x8A
parseTimeCalibration(packet) ==
    [threw |-> ~CanReadUInt16BE(packet, Len(packet) - 6),
     serialNumber |-> serialOf(packet)]

\* new Date() at time t: the model's clock starts at 2026-01-01 00:00:00
dateFields(t) ==
    <<26, 1, 1 + ((t \div 86400000) % 28), (t \div 3600000) % 24,
      (t \div 60000) % 60, (t \div 1000) % 60>>

\* the getters of a Date read in the server's time zone;
\* timezoneOffset is date.getTimezoneOffset(), UTC minus local, in minutes
localDateFields(t, timezoneOffset) == dateFields(t - timezoneOffset * 60000)

createTimeCalibrationResponse(serialNumber, date) ==
    LET buf == <<120, 120, 11, 138>> \o date
                  \o <<hi8(serialNumber), lo8(serialNumber)>>
        crc == calculateCRCITU(buf, 2, 12)
    IN  buf \o <<hi8(crc), lo8(crc)>> \o <<13, 10>>

\* 0x94: only sub-protocol 0x00 reads with readUInt16BE.  The voltage is
\* kept in hundredths of a volt, the integer the code divides by 100.
parseInformationTransmission(packet) ==
    LET protocolNumberPos == getHeaderSize(packet)
        subProtocol == byteOrUndefined(packet, protocolNumberPos + 1)
    IN  IF subProtocol = 0
        THEN IF CanReadUInt16BE(packet, protocolNumberPos + 2)
             THEN [threw |-> FALSE, subProtocol |-> 0, type |-> "voltage",
                   voltage |-> readUInt16BE(packet, protocolNumberPos + 2)]
             ELSE [threw |-> TRUE, subProtocol |-> 0, type |-> "voltage",
                   voltage |-> 0]
        ELSE [threw |-> FALSE, subProtocol |-> subProtocol, type |-> "other",
              voltage |-> 0]

----------------------------------------------------------------------------
(* Command encoder (0x80) *)

\* Buffer.from([...]) stores every element modulo 256
\* an encoder that knows only the short format
commandHeaderShortOnly(textLength) ==
    <<120, 120, (textLength + 10) % 256, 128, (textLength + 6) % 256>>

commandHeader(textLength) ==
    LET commandLength == 4 + textLength + 2
        packetLength == 1 + 1 + commandLength + 2 + 2
    IN  IF packetLength < 256
        THEN <<120, 120, packetLength % 256, 128, commandLength % 256>>
        ELSE <<121, 121, hi8(packetLength), lo8(packetLength), 128,
               commandLength % 256>>

commandPacket(commandBytes, serialNumber) ==
    LET serverFlag == <<0, 0, 0, 0>>
        language == <<0, 2>>
        header == commandHeader(Len(commandBytes))
        dataBeforeCRC == header \o serverFlag \o commandBytes \o language
                         \o <<hi8(serialNumber), lo8(serialNumber)>>
        crc == calculateCRCITU(dataBeforeCRC, 2, Len(dataBeforeCRC))
    IN  dataBeforeCRC \o <<hi8(crc), lo8(crc)>> \o <<13, 10>>

----------------------------------------------------------------------------
(* What a handler logs and writes, in the order it does so *)

\* the "unknown" of  socket.deviceImei || "unknown"
Unknown == <<-2>>

imeiOrUnknown(imei) == IF Truthy(imei) THEN imei ELSE Unknown

Ev(kind, name, socket, imei, serial, n, bytes) ==
    [kind |-> kind, name |-> name, socket |-> socket, imei |-> imei,
     serial |-> serial, n |-> n, bytes |-> bytes]

\* log(...)
Log(S, name, socket, imei, serial, n) ==
    [S EXCEPT !.trace = Append(@, Ev("log", name, socket, imei, serial, n, <<>>))]

\* socket.write(bytes)
Write(S, socket, bytes) ==
    [S EXCEPT !.trace = Append(@, Ev("write", "", socket, Null, -1, -1, bytes))]

\* an exception leaves the handler
Throw(S) == [S EXCEPT !.threw = TRUE]

----------------------------------------------------------------------------
(* The two Maps: this.clients (by IMEI) and socket.pendingCommands (by serial) *)

NullVoltage == -1

clientsGet(m, imei) == {e \in m : e.imei = imei}

\* a registry that keeps the entries a key had before
clientsSetKeeping(m, imei, entry) == m \cup {entry}

clientsSet(m, imei, entry) == {e \in m : e.imei # imei} \cup {entry}

\* clientData.lastBatteryVoltage = voltage, on the entry clients.get(imei) returned
clientsSetVoltage(m, imei, voltage) ==
    {IF e.imei = imei THEN [e EXCEPT !.lastBatteryVoltage = voltage] ELSE e : e \in m}

clientsDelete(m, imei) == {e \in m : e.imei # imei}

pendingGet(m, serialNumber) == {e \in m : e.serialNumber = serialNumber}

pendingSet(m, serialNumber, entry) ==
    {e \in m : e.serialNumber # serialNumber} \cup {entry}

pendingDelete(m, serialNumber) == {e \in m : e.serialNumber # serialNumber}

----------------------------------------------------------------------------
(* Handlers.  S is the state a handler can touch on behalf of socket c:     *)
(* S.imei is socket.deviceImei, S.clients the registry, S.pending           *)
(* socket.pendingCommands, S.buffer the closure's buffer, S.trace what was  *)
(* logged and written so far; t is Date.now().                              *)

\* a login that leaves the registry entry of a known identifier alone
handleLoginFirstWins(S, c, packet) ==
    LET d == parseLogin(packet)
    IN  IF d.threw THEN Throw(S)
        ELSE LET S1 == Log(S, "login", c, d.imei, d.serialNumber, -1)
                 S2 == [S1 EXCEPT
                          !.imei = d.imei,
                          !.clients = IF clientsGet(@, d.imei) # {} THEN @
                                      ELSE clientsSet(@, d.imei,
                                               [imei |-> d.imei, socket |-> c,
                                                lastBatteryVoltage |-> NullVoltage])]
                 S3 == Write(S2, c, createLoginAck(d.serialNumber))
             IN  Log(S3, "login_ack", c, d.imei, d.serialNumber, -1)

handleLogin(S, c, packet) ==
    LET d == parseLogin(packet)
    IN  IF d.threw THEN Throw(S)
        ELSE LET S1 == Log(S, "login", c, d.imei, d.serialNumber, -1)
                 S2 == [S1 EXCEPT
                          !.imei = d.imei,
                          !.clients = clientsSet(@, d.imei,
                              [imei |-> d.imei, socket |-> c,
                               lastBatteryVoltage |-> NullVoltage])]
                 S3 == Write(S2, c, createLoginAck(d.serialNumber))
             IN  Log(S3, "login_ack", c, d.imei, d.serialNumber, -1)

handleHeartbeat(S, c, packet) ==
    LET d == parseHeartbeat(packet)
    IN  IF d.threw THEN Throw(S)
        ELSE Write(Log(S, "heartbeat", c, imeiOrUnknown(S.imei), d.serialNumber,
                       d.batteryLevel),
                   c, createHeartbeatAck(d.serialNumber))

\* handleCommandResponse and handleCommandResponseJM01 differ in the parser only
matchResponse(S, c, d, t) ==
    LET matched == pendingGet(S.pending, d.serialNumber)
    IN  IF d.threw THEN Log(S, "error", c, imeiOrUnknown(S.imei), -1, -1)
        ELSE IF matched # {}
        THEN Log([S EXCEPT !.pending = pendingDelete(@, d.serialNumber)],
                 "matched", c, imeiOrUnknown(S.imei), d.serialNumber,
                 t - (CHOOSE e \in matched : TRUE).sentAt)
        ELSE Log(S, "unmatched", c, imeiOrUnknown(S.imei), d.serialNumber, -1)

handleCommandResponse(S, c, packet, t) ==
    matchResponse(S, c, parseCommandResponse(packet), t)

handleCommandResponseJM01(S, c, packet, t) ==
    matchResponse(S, c, parseCommandResponseJM01(packet), t)

\* the handlers with a try/catch of their own: log, then write the ack if any
guardedHandler(S, c, d, name, ack) ==
    IF d.threw THEN Log(S, "error", c, imeiOrUnknown(S.imei), -1, -1)
    ELSE LET S1 == Log(S, name, c, imeiOrUnknown(S.imei), -1, -1)
         IN  IF ack = <<>> THEN S1 ELSE Write(S1, c, ack)

handleGPSLocation(S, c, packet) ==
    guardedHandler(S, c, parseGPSLocation(packet), "gps", <<>>)

handleAlarm(S, c, packet) ==
    LET d == parseAlarm(packet)
    IN  guardedHandler(S, c, d, "alarm", createAlarmAck(d.serialNumber))

handleLBSAlarm(S, c, packet) ==
    LET d == parseLBSAlarm(packet)
    IN  guardedHandler(S, c, d, "lbs_alarm", createLBSAlarmAck(d.serialNumber))

handleLBSExtension(S, c, packet) ==
    guardedHandler(S, c, parseLBSExtension(packet), "lbs_extension", <<>>)

handleWiFi(S, c, packet) ==
    LET d == parseWiFi(packet)
    IN  guardedHandler(S, c, d, "wifi", createWiFiResponse(d.serialNumber))

handleAlarmHVT001(S, c, packet) ==
    LET d == parseAlarmHVT001(packet)
    IN  guardedHandler(S, c, d, "alarm_hvt001", createAlarmHVT001Ack(d.serialNumber))

handleExternalDeviceTransfer(S, c, packet) ==
    LET d == parseExternalDeviceTransfer(packet)
    IN  guardedHandler(S, c, d, "external_device",
                       createExternalDeviceResponse(d.serialNumber, Null))

handleExternalModuleTransmission(S, c, packet) ==
    LET d == parseExternalModuleTransmission(packet)
    IN  guardedHandler(S, c, d, "external_module",
                       createExternalModuleResponse(d.serialNumber, d.moduleId, Null))

handleFileTransfer(S, c, packet) ==
    LET d == parseFileTransfer(packet)
    IN  guardedHandler(S, c, d, "file_transfer",
                       createFileTransferAck(d.serialNumber, TRUE))

\* no try/catch of its own: an exception reaches handlePacket
handleTimeCalibration(S, c, packet, t) ==
    LET d == parseTimeCalibration(packet)
    IN  IF d.threw THEN Throw(S)
        ELSE LET S1 == Log(S, "time_calibration", c, imeiOrUnknown(S.imei), -1, -1)
                 S2 == Write(S1, c, createTimeCalibrationResponse(d.serialNumber,
                                                                  dateFields(t)))
             IN  Log(S2, "time_sent", c, imeiOrUnknown(S.imei), -1, -1)

handleInformationTransmission(S, c, packet) ==
    LET d == parseInformationTransmission(packet)
        imei == imeiOrUnknown(S.imei)
    IN  IF d.threw THEN Log(S, "error", c, imei, -1, -1)
        ELSE IF d.subProtocol = 0 /\ d.type = "voltage"
        THEN Log([S EXCEPT !.clients = clientsSetVoltage(@, imei, d.voltage)],
                 "battery", c, imei, -1, d.voltage)
        ELSE Log(S, "information", c, imei, -1, d.subProtocol)

\* a default case that also forgets the connection's pending commands
handleUnknownForgetting(S, c, protocolNumber) ==
    Log([S EXCEPT !.pending = {}], "unknown", c, imeiOrUnknown(S.imei), -1,
        protocolNumber)

handleUnknown(S, c, protocolNumber) ==
    Log(S, "unknown", c, imeiOrUnknown(S.imei), -1, protocolNumber)

dispatch(S, c, packet, protocolNumber, t) ==
    CASE protocolNumber = PROTOCOL_NUMBERS.LOGIN -> handleLogin(S, c, packet)
      [] protocolNumber = PROTOCOL_NUMBERS.HEARTBEAT -> handleHeartbeat(S, c, packet)
      [] protocolNumber = PROTOCOL_NUMBERS.GPS_LOCATION ->
             handleGPSLocation(S, c, packet)
      [] protocolNumber = PROTOCOL_NUMBERS.ALARM -> handleAlarm(S, c, packet)
      [] protocolNumber = PROTOCOL_NUMBERS.LBS_ALARM -> handleLBSAlarm(S, c, packet)
      [] protocolNumber = PROTOCOL_NUMBERS.LBS_EXTENSION ->
             handleLBSExtension(S, c, packet)
      [] protocolNumber = PROTOCOL_NUMBERS.WIFI -> handleWiFi(S, c, packet)
      [] protocolNumber = PROTOCOL_NUMBERS.COMMAND_RESPONSE ->
             handleCommandResponse(S, c, packet, t)
      [] protocolNumber = PROTOCOL_NUMBERS.COMMAND_RESPONSE_JM01 ->
             handleCommandResponseJM01(S, c, packet, t)
      [] protocolNumber = PROTOCOL_NUMBERS.ALARM_HVT001 ->
             handleAlarmHVT001(S, c, packet)
      [] protocolNumber = PROTOCOL_NUMBERS.EXTERNAL_DEVICE_TRANSFER ->
             handleExternalDeviceTransfer(S, c, packet)
      [] protocolNumber = PROTOCOL_NUMBERS.EXTERNAL_MODULE_TRANSMISSION ->
             handleExternalModuleTransmission(S, c, packet)
      [] protocolNumber = PROTOCOL_NUMBERS.LARGE_FILE_TRANSFER ->
             handleFileTransfer(S, c, packet)
      [] protocolNumber = PROTOCOL_NUMBERS.TIME_CALIBRATION ->
             handleTimeCalibration(S, c, packet, t)
      [] protocolNumber = PROTOCOL_NUMBERS.INFORMATION_TRANSMISSION ->
             handleInformationTransmission(S, c, packet)
      [] OTHER -> handleUnknown(S, c, protocolNumber)

\* a dispatcher without the try/catch around the switch
handlePacketNoCatch(S, c, packet, protocolNumber, t) ==
    IF packet = <<>> THEN S
    ELSE dispatch(Log(S, "received", c, imeiOrUnknown(S.imei), -1, protocolNumber),
                  c, packet, protocolNumber, t)

\* if (!packet) return; log "Received packet"; try { switch } catch { log }
handlePacket(S, c, packet, protocolNumber, t) ==
    IF packet = <<>> THEN S
    ELSE LET S1 == Log(S, "received", c, imeiOrUnknown(S.imei), -1, protocolNumber)
             R == dispatch(S1, c, packet, protocolNumber, t)
         IN  IF R.threw
             THEN Log([R EXCEPT !.threw = FALSE], "error", c,
                      imeiOrUnknown(R.imei), -1, protocolNumber)
             ELSE R

\* a loop that parses everything the buffer holds before it dispatches
RECURSIVE receiveLoopParseAhead(_, _, _)
receiveLoopParseAhead(S, c, t) ==
    IF Len(S.buffer) = 0 THEN S
    ELSE LET result == parsePacket(S.buffer)
         IN  IF result.kind = "null" THEN S
             ELSE handlePacket(
                      receiveLoopParseAhead(
                          [S EXCEPT
                             !.buffer = result.remaining,
                             !.trace = Append(@, Ev("parse", result.kind, c, Null,
                                                    -1, result.protocolNumber,
                                                    result.packet))],
                          c, t),
                      c, result.packet, result.protocolNumber, t)

\* The loop of the "data" handler, after buffer = Buffer.concat([buffer, data]);
\* an exception that handlePacket lets through leaves the loop
RECURSIVE receiveLoop(_, _, _)
receiveLoop(S, c, t) ==
    IF Len(S.buffer) = 0 \/ S.threw THEN S
    ELSE LET result == parsePacket(S.buffer)
         IN  IF result.kind = "null" THEN S
             ELSE receiveLoop(
                      handlePacket(
                          [S EXCEPT
                             !.buffer = result.remaining,
                             !.trace = Append(@, Ev("parse", result.kind, c, Null,
                                                    -1, result.protocolNumber,
                                                    result.packet))],
                          c, result.packet, result.protocolNumber, t),
                      c, t)

----------------------------------------------------------------------------
(* Inputs: the frames devices send and the commands operators issue *)

COMMAND_TIMEOUT_MS == 60000

Sockets == 1..NumSockets

\* A short frame as a device builds it
deviceFrame(protocolNumber, payload, serialNumber) ==
    LET body == <<(Len(payload) + 5) % 256, protocolNumber>> \o payload
                \o <<hi8(serialNumber), lo8(serialNumber)>>
        crc == calculateCRCITU(body, 0, Len(body))
    IN  <<120, 120>> \o body \o <<hi8(crc), lo8(crc)>> \o <<13, 10>>

\* IMEI 355172107461053 and IMEI 861234567890123 in BCD
ImeiBytesA == <<3, 85, 23, 33, 7, 70, 16, 83>>

ImeiBytesB == <<8, 97, 35, 69, 103, 137, 1, 35>>

LoginFrame(imeiBytes) == deviceFrame(1, imeiBytes \o <<0, 54, 0, 1>>, 1)

HeartbeatFrame == deviceFrame(19, <<71, 6, 4, 0, 2>>, 16)

\* "OK" as the response text
ResponseFrame(serialNumber) == deviceFrame(33, <<0, 0, 0, 0, 2, 79, 75>>, serialNumber)

ResponseFrameJM01(serialNumber) == deviceFrame(21, <<2, 79, 75>>, serialNumber)

UnknownFrame == deviceFrame(153, <<>>, 2)

\* The values Math.floor(Math.random() * 65535) is let to take
Serials == {7, 300}

\* "STATUS#"
Commands == {<<83, 84, 65, 84, 85, 83, 35>>}

CommandTargets == {extractIMEI(ImeiBytesA), extractIMEI(ImeiBytesB)}

LoginFrames == {LoginFrame(ImeiBytesA), LoginFrame(ImeiBytesB)}

\* The registry and the pending commands are exercised with data events
\* that deliver one whole frame each
Chunks ==
    LoginFrames \cup {ResponseFrame(q) : q \in Serials} \cup {ResponseFrameJM01(7)}

----------------------------------------------------------------------------
(* The server *)

\* step: the handler that ran, its socket, its arguments (imei, data), what
\* it returned and what it logged and wrote
NoStep ==
    [op |-> "none", socket |-> 0, imei |-> Null, data |-> <<>>, result |-> TRUE,
     trace |-> <<>>]

Step(op, socket, imei, data, result, trace) ==
    [op |-> op, socket |-> socket, imei |-> imei, data |-> data,
     result |-> result, trace |-> trace]

CodecIdle ==
    /\ stream = <<>>
    /\ fed = 0
    /\ cuts = <<>>
    /\ rxframes = <<>>

Init ==
    /\ sockets = [c \in Sockets |-> "idle"]
    /\ deviceImei = [c \in Sockets |-> Null]
    /\ buffer = [c \in Sockets |-> <<>>]
    /\ clients = {}
    /\ pendingCommands = [c \in Sockets |-> {}]
    /\ timers = {}
    /\ inflight = {}
    /\ now = 0
    /\ step = NoStep
    /\ writableLength = [c \in Sockets |-> 0]
    /\ CodecIdle

\* net.createServer callback: handleConnection(socket)
Accept(c) ==
    /\ sockets[c] = "idle"
    /\ \A b \in Sockets : b < c => sockets[b] # "idle"
    /\ sockets' = [sockets EXCEPT ![c] = "open"]
    /\ deviceImei' = [deviceImei EXCEPT ![c] = Null]
    /\ buffer' = [buffer EXCEPT ![c] = <<>>]
    /\ step' = Step("accept", c, Null, <<>>, TRUE, <<>>)
    /\ UNCHANGED <<clients, pendingCommands, timers, inflight, now, codecVars,
                   writableLength>>

\* the responses a data event carried take their commands out of flight
answered(c, trace) ==
    {m \in inflight :
        /\ m.socket = c
        /\ \E i \in 1..Len(trace) :
              /\ trace[i].kind = "log"
              /\ trace[i].name \in {"matched", "unmatched"}
              /\ trace[i].serial = m.serialNumber}

\* a data handler that keeps one pending map for all the connections
DataCoreSharedPending(c, data) ==
    /\ sockets[c] = "open"
    /\ LET S0 == [imei |-> deviceImei[c], clients |-> clients,
                  pending |-> UNION {pendingCommands[b] : b \in Sockets},
                  buffer |-> buffer[c] \o data,
                  trace |-> <<>>, threw |-> FALSE]
           R == receiveLoop(S0, c, now)
       IN  /\ deviceImei' = [deviceImei EXCEPT ![c] = R.imei]
           /\ clients' = R.clients
           /\ pendingCommands' =
                  [b \in Sockets |-> pendingCommands[b] \cap R.pending]
           /\ buffer' = [buffer EXCEPT ![c] = R.buffer]
           /\ inflight' = inflight \ answered(c, R.trace)
           /\ step' = Step("data", c, Null, data, ~R.threw, R.trace)
    /\ UNCHANGED <<sockets, timers, now>>

\* socket.on("data"): what the handler does to the server
DataCore(c, data) ==
    /\ sockets[c] = "open"
    /\ LET S0 == [imei |-> deviceImei[c], clients |-> clients,
                  pending |-> pendingCommands[c], buffer |-> buffer[c] \o data,
                  trace |-> <<>>, threw |-> FALSE]
           R == receiveLoop(S0, c, now)
       IN  /\ deviceImei' = [deviceImei EXCEPT ![c] = R.imei]
           /\ clients' = R.clients
           /\ pendingCommands' = [pendingCommands EXCEPT ![c] = R.pending]
           /\ buffer' = [buffer EXCEPT ![c] = R.buffer]
           /\ inflight' = inflight \ answered(c, R.trace)
           /\ step' = Step("data", c, Null, data, ~R.threw, R.trace)
    /\ UNCHANGED <<sockets, timers, now>>

\* socket.on("data") from a device that reads what the server writes: the
\* transport takes the acknowledgements before the next event
Data(c, data) == DataCore(c, data) /\ UNCHANGED <<codecVars, writableLength>>

\* socket.on("close")
Close(c) ==
    /\ sockets[c] = "open"
    /\ sockets' = [sockets EXCEPT ![c] = "closed"]
    /\ clients' = IF Truthy(deviceImei[c])
                  THEN clientsDelete(clients, deviceImei[c])
                  ELSE clients
    /\ step' = Step("close", c, deviceImei[c], <<>>, TRUE,
                    <<Ev("log", "closed", c, deviceImei[c], -1, -1, <<>>)>>)
    /\ writableLength' = [writableLength EXCEPT ![c] = 0]
    /\ UNCHANGED <<deviceImei, buffer, pendingCommands, timers, inflight, now,
                   codecVars>>

\* getBatteryVoltage(imei): null without an entry or without a voltage
getBatteryVoltage(m, imei) ==
    LET clientData == clientsGet(m, imei)
    IN  IF clientData = {} THEN NullVoltage
        ELSE (CHOOSE e \in clientData : TRUE).lastBatteryVoltage

GetBatteryVoltage(imei) ==
    /\ step' = Step("getBatteryVoltage", 0, imei, <<>>,
                    getBatteryVoltage(clients, imei) # NullVoltage,
                    <<Ev("return", "voltage", 0, imei, -1,
                         getBatteryVoltage(clients, imei), <<>>)>>)
    /\ UNCHANGED <<sockets, deviceImei, buffer, clients, pendingCommands, timers,
                   inflight, now, codecVars, writableLength>>

\* a timer handle that no armed timer holds
freeTimerId ==
    CHOOSE i \in 1..(Cardinality(timers) + 1) : \A t \in timers : t.id # i

\* sendCommand(imei, command), with serialNumber the random draw; at most
\* cap timers are armed at a time
\* The caller is sendCommand itself or the method that passes its command
\* on, with what that method did before the call
SendCommandBy(caller, before, imei, command, serialNumber, cap) ==
    LET clientData == clientsGet(clients, imei)
    IN  IF clientData = {}
        THEN /\ step' = Step(caller, 0, imei, command, FALSE,
                             before \o
                             <<Ev("log", "not_connected", 0, imei, -1, -1, <<>>)>>)
             /\ UNCHANGED <<sockets, deviceImei, buffer, clients, pendingCommands,
                            timers, inflight, now, codecVars, writableLength>>
        ELSE LET socket == (CHOOSE e \in clientData : TRUE).socket
                 packet == commandPacket(command, serialNumber)
             IN  /\ Cardinality(timers) < cap
                 /\ pendingCommands' =
                        [pendingCommands EXCEPT ![socket] =
                            pendingSet(@, serialNumber,
                                [serialNumber |-> serialNumber, command |-> command,
                                 sentAt |-> now, imei |-> imei])]
                 /\ timers' = timers \cup
                        {[id |-> freeTimerId, socket |-> socket,
                          serialNumber |-> serialNumber, imei |-> imei,
                          command |-> command, due |-> now + COMMAND_TIMEOUT_MS]}
                 /\ inflight' = inflight \cup
                        {[socket |-> socket, serialNumber |-> serialNumber,
                          sentAt |-> now]}
                 /\ step' = Step(caller, socket, imei, command, TRUE,
                                 before \o
                                 <<Ev("write", "", socket, Null, -1, -1, packet),
                                   Ev("log", "sent", socket, imei, serialNumber, -1,
                                      <<>>)>>)
                 /\ UNCHANGED <<sockets, deviceImei, buffer, clients, now, codecVars,
                                writableLength>>

SendCommand(imei, command, serialNumber, cap) ==
    SendCommandBy("sendCommand", <<>>, imei, command, serialNumber, cap)

\* the setTimeout callback of sendCommand, 60 seconds after it was armed
TimerFire(t) ==
    /\ t \in timers
    /\ t.due <= now
    /\ timers' = timers \ {t}
    /\ inflight' = inflight \
           {[socket |-> t.socket, serialNumber |-> t.serialNumber,
             sentAt |-> t.due - COMMAND_TIMEOUT_MS]}
    /\ IF pendingGet(pendingCommands[t.socket], t.serialNumber) # {}
       THEN /\ pendingCommands' =
                   [pendingCommands EXCEPT ![t.socket] =
                       pendingDelete(@, t.serialNumber)]
            /\ step' = Step("timer", t.socket, t.imei, t.command, TRUE,
                            <<Ev("log", "timeout", t.socket, t.imei, t.serialNumber,
                                 -1, t.command)>>)
       ELSE /\ UNCHANGED pendingCommands
            /\ step' = Step("timer", t.socket, t.imei, t.command, FALSE, <<>>)
    /\ UNCHANGED <<sockets, deviceImei, buffer, clients, now, codecVars,
                   writableLength>>

\* Time passes; a timer that is due runs before time moves on.  Only sentAt
\* and the timers read the clock, so it is left to stand while no timer is armed.
Tick ==
    /\ now + TickMs <= MaxTime
    /\ timers # {}
    /\ \A t \in timers : t.due > now
    /\ now' = now + TickMs
    /\ step' = Step("tick", 0, Null, <<>>, TRUE, <<>>)
    /\ UNCHANGED <<sockets, deviceImei, buffer, clients, pendingCommands, timers,
                   inflight, codecVars, writableLength>>

\* Two connections, both identifiers, one command in flight at a time
Next ==
    \/ \E c \in Sockets : Accept(c)
    \/ \E c \in Sockets : \E data \in Chunks : Data(c, data)
    \/ \E c \in Sockets : Close(c)
    \/ \E imei \in CommandTargets : \E command \in Commands :
           \E serialNumber \in Serials :
               SendCommand(imei, command, serialNumber, MaxTimers)
    \/ \E t \in timers : TimerFire(t)
    \/ Tick

Spec == Init /\ [][Next]_vars

\* One connection and one identifier, several commands in flight
CommandChunks ==
    {LoginFrame(ImeiBytesA)} \cup {ResponseFrame(q) : q \in Serials}
    \cup {ResponseFrameJM01(q) : q \in Serials}
    \cup {UnknownFrame, UnknownFrame \o ResponseFrame(7)}

CommandNext ==
    \/ Accept(1)
    \/ \E data \in CommandChunks : Data(1, data)
    \/ Close(1)
    \/ \E command \in Commands : \E serialNumber \in Serials :
           SendCommand(extractIMEI(ImeiBytesA), command, serialNumber,
                       MaxCommandTimers)
    \/ \E t \in timers : TimerFire(t)
    \/ Tick

CommandSpec == Init /\ [][CommandNext]_vars

\* One connection whose data events deliver up to MaxChunkFrames frames at
\* once, possibly after the rest of a frame and before the start of another
LoopFrames ==
    {LoginFrame(ImeiBytesA), HeartbeatFrame, ResponseFrame(7), UnknownFrame}

RECURSIVE FrameSeqs(_)
FrameSeqs(n) ==
    IF n = 0 THEN {<<>>}
    ELSE FrameSeqs(n - 1) \cup {f \o g : f \in LoopFrames, g \in FrameSeqs(n - 1)}

LoopChunks ==
    {pre \o mid \o post :
        pre \in {<<>>, SliceFrom(HeartbeatFrame, SplitAt)},
        mid \in FrameSeqs(MaxChunkFrames),
        post \in {<<>>, Slice(HeartbeatFrame, 0, SplitAt)}} \ {<<>>}

LoopNext ==
    \/ Accept(1)
    \/ \E data \in LoopChunks : Data(1, data)
    \/ Close(1)

LoopSpec == Init /\ [][LoopNext]_vars

\* One connection that receives one byte stream in chunks: the stream is up
\* to MaxSegments segments end to end, delivered in up to MaxChunks chunks
Garbage == <<0, 0, 0, 0, 0, 0, 0>>

Segments ==
    {LoginFrame(ImeiBytesA), HeartbeatFrame, ResponseFrameJM01(7), Garbage,
     Slice(HeartbeatFrame, 0, SplitAt)}

RECURSIVE Streams(_)
Streams(n) ==
    IF n = 0 THEN {<<>>}
    ELSE Streams(n - 1) \cup {f \o g : f \in Segments, g \in Streams(n - 1)}

ChunkSizes == {5, 6, 7}

\* the frames parsePacket returned during a run of the loop, in order
RECURSIVE FramesIn(_, _)
FramesIn(trace, i) ==
    IF i > Len(trace) THEN <<>>
    ELSE (IF trace[i].kind = "parse" /\ trace[i].name = "frame"
          THEN <<trace[i].bytes>> ELSE <<>>)
         \o FramesIn(trace, i + 1)

CodecInit ==
    /\ sockets = [c \in Sockets |-> "idle"]
    /\ deviceImei = [c \in Sockets |-> Null]
    /\ buffer = [c \in Sockets |-> <<>>]
    /\ clients = {}
    /\ pendingCommands = [c \in Sockets |-> {}]
    /\ timers = {}
    /\ inflight = {}
    /\ now = 0
    /\ step = NoStep
    /\ writableLength = [c \in Sockets |-> 0]
    /\ stream \in Streams(MaxSegments) \ {<<>>}
    /\ fed = 0
    /\ cuts = <<>>
    /\ rxframes = <<>>

CodecAccept == Accept(1)

\* the next k bytes of the stream arrive in one "data" event
Feed(k) ==
    /\ k >= 1
    /\ fed + k <= Len(stream)
    /\ Len(cuts) < MaxChunks
    /\ DataCore(1, Slice(stream, fed, fed + k))
    /\ fed' = fed + k
    /\ cuts' = Append(cuts, k)
    /\ rxframes' = rxframes \o FramesIn(step'.trace, 1)
    /\ UNCHANGED <<stream, writableLength>>

CodecNext ==
    \/ CodecAccept
    \/ \E k \in ChunkSizes \cup {Len(stream) - fed} : Feed(k)

CodecSpec == CodecInit /\ [][CodecNext]_vars

\* One connection that receives bytes without 0x78 and 0x79 and then one
\* frame, in chunks
MaxGarbage == 8

GarbageOf(n) == [i \in 1..n |-> (i * 37) % 120]

GarbageStreams ==
    {GarbageOf(n) \o f : n \in 1..MaxGarbage,
                         f \in {LoginFrame(ImeiBytesA), HeartbeatFrame}}

ResyncInit ==
    /\ sockets = [c \in Sockets |-> "idle"]
    /\ deviceImei = [c \in Sockets |-> Null]
    /\ buffer = [c \in Sockets |-> <<>>]
    /\ clients = {}
    /\ pendingCommands = [c \in Sockets |-> {}]
    /\ timers = {}
    /\ inflight = {}
    /\ now = 0
    /\ step = NoStep
    /\ writableLength = [c \in Sockets |-> 0]
    /\ stream \in GarbageStreams
    /\ fed = 0
    /\ cuts = <<>>
    /\ rxframes = <<>>

ResyncNext ==
    \/ CodecAccept
    \/ \E k \in {1, 4, 6, 9} \cup {Len(stream) - fed} : Feed(k)

ResyncSpec == ResyncInit /\ [][ResyncNext]_vars

\* One connection that receives a long frame whose header declares the
\* greatest length, 65535: 4 + 65535 + 2 bytes in all, or the first 8 of them
OversizeStream == <<121, 121, 255, 255>> \o [i \in 1..65537 |-> 0]

OversizeStreams == {Slice(OversizeStream, 0, 8), OversizeStream}

OversizeInit ==
    /\ sockets = [c \in Sockets |-> "idle"]
    /\ deviceImei = [c \in Sockets |-> Null]
    /\ buffer = [c \in Sockets |-> <<>>]
    /\ clients = {}
    /\ pendingCommands = [c \in Sockets |-> {}]
    /\ timers = {}
    /\ inflight = {}
    /\ now = 0
    /\ step = NoStep
    /\ writableLength = [c \in Sockets |-> 0]
    /\ stream \in OversizeStreams
    /\ fed = 0
    /\ cuts = <<>>
    /\ rxframes = <<>>

OversizeNext ==
    \/ CodecAccept
    \/ \E k \in {4, 5, 6, 1024, 16384, 32768, 65536} \cup {Len(stream) - fed} :
          Feed(k)

OversizeSpec == OversizeInit /\ [][OversizeNext]_vars

\* One connection that receives frames of every opcode, well-formed ones,
\* ones too short for their parser and one with a wrong CRC
RECURSIVE Zeros(_)
Zeros(n) == IF n = 0 THEN <<>> ELSE <<0>> \o Zeros(n - 1)

\* A long frame as a device builds it
longDeviceFrame(protocolNumber, payload, serialNumber) ==
    LET body == <<hi8(Len(payload) + 5), lo8(Len(payload) + 5), protocolNumber>>
                \o payload \o <<hi8(serialNumber), lo8(serialNumber)>>
        crc == calculateCRCITU(body, 0, Len(body))
    IN  <<121, 121>> \o body \o <<hi8(crc), lo8(crc)>> \o <<13, 10>>

\* 12.50 V
VoltageFrame == deviceFrame(148, <<0, 4, 226>>, 260)

\* frames their parsers accept
GoodFrames ==
    {LoginFrame(ImeiBytesA), HeartbeatFrame,
     deviceFrame(34, Zeros(26), 257), deviceFrame(38, Zeros(8) \o <<1>>, 258),
     deviceFrame(25, Zeros(11) \o <<2, 2>>, 259), deviceFrame(39, Zeros(8) \o <<1>>, 513),
     deviceFrame(40, <<0>>, 514), deviceFrame(44, Zeros(53), 515),
     ResponseFrame(7), ResponseFrameJM01(7),
     deviceFrame(155, <<2, 171, 205>>, 516), deviceFrame(156, <<9, 1, 171>>, 517),
     longDeviceFrame(141, Zeros(20), 518), deviceFrame(138, <<>>, 3338),
     VoltageFrame, deviceFrame(148, <<5, 1>>, 261)}

\* a login frame whose payload is 4 bytes instead of the identifier's 8,
\* and one without a payload
ShortLoginFrame == deviceFrame(1, <<1, 2, 3, 4>>, 5)

EmptyLoginFrame == deviceFrame(1, <<>>, 5)

\* frames too short for their parsers; the 5-byte ones declare length 0
ShortFrames ==
    {ShortLoginFrame, EmptyLoginFrame, deviceFrame(34, <<>>, 6),
     deviceFrame(25, <<>>, 7), deviceFrame(44, <<>>, 8),
     longDeviceFrame(141, <<>>, 9), <<120, 120, 0, 138, 13>>,
     <<120, 120, 0, 19, 13>>, <<120, 120, 0, 38, 13>>}

\* the heartbeat frame with its CRC bytes changed
BadCrcFrame ==
    [HeartbeatFrame EXCEPT ![Len(HeartbeatFrame) - 3] = (@ + 1) % 256]

UnknownFrames == {UnknownFrame, deviceFrame(128, <<>>, 3)}

\* the login frame of scenario S1, with the CRC bytes E0 D1 it is given
S1LoginFrame ==
    <<120, 120, 17, 1, 3, 85, 23, 33, 7, 70, 16, 83, 0, 54, 0, 1, 0, 1, 224, 209,
      13, 10>>

DispatchChunks ==
    GoodFrames \cup ShortFrames \cup UnknownFrames \cup {BadCrcFrame, S1LoginFrame}
    \cup {f \o HeartbeatFrame : f \in ShortFrames}

DispatchNext ==
    \/ Accept(1)
    \/ \E data \in DispatchChunks : Data(1, data)
    \/ Close(1)
    \/ GetBatteryVoltage(extractIMEI(ImeiBytesA))

DispatchSpec == Init /\ [][DispatchNext]_vars

\* The SIGTERM and SIGINT handlers: log, server.stop(), process.exit(0).
\* server.close() only stops the listening; process.exit ends the process
\* with whatever connections and registry entries it still has, and no
\* "close" handler runs any more.
Shutdown ==
    /\ \E c \in Sockets : sockets[c] # "exited"
    /\ sockets' = [c \in Sockets |-> "exited"]
    /\ step' = Step("shutdown", 0, Null, <<>>, TRUE,
                    <<Ev("log", "signal", 0, Null, -1, now, <<>>),
                      Ev("log", "stopped", 0, Null, -1, now, <<>>),
                      Ev("exit", "process", 0, Null, -1, now, <<>>)>>)
    /\ UNCHANGED <<deviceImei, buffer, clients, pendingCommands, timers, inflight,
                   now, codecVars, writableLength>>

\* a login whose identifier bytes are all zero: extractIMEI returns ""
ZeroLoginFrame == LoginFrame(<<0, 0, 0, 0, 0, 0, 0, 0>>)

ShutdownNext ==
    \/ \E c \in Sockets : Accept(c)
    \/ \E c \in Sockets :
          \E data \in LoginFrames \cup {ZeroLoginFrame, HeartbeatFrame} :
             Data(c, data)
    \/ \E c \in Sockets : Close(c)
    \/ Shutdown

ShutdownSpec == Init /\ [][ShutdownNext]_vars

----------------------------------------------------------------------------
(* A device that stops reading: what socket.write leaves in the socket *)

\* the bytes a handler gave to socket.write on connection c
RECURSIVE bytesWritten(_, _)
bytesWritten(trace, c) ==
    IF trace = <<>> THEN 0
    ELSE (IF Head(trace).kind = "write" /\ Head(trace).socket = c
          THEN Len(Head(trace).bytes) ELSE 0) + bytesWritten(Tail(trace), c)

\* socket.on("data") from a device that does not read: every socket.write of
\* the handlers returns without looking at its result, and the bytes stay in
\* the socket
StalledData(c, data) ==
    /\ writableLength[c] <= Watermark
    /\ DataCore(c, data)
    /\ writableLength' =
           [writableLength EXCEPT ![c] = @ + bytesWritten(step'.trace, c)]
    /\ UNCHANGED codecVars

\* the device reads again: the transport takes all that was queued ("drain")
Drain(c) ==
    /\ sockets[c] = "open"
    /\ writableLength[c] > 0
    /\ writableLength' = [writableLength EXCEPT ![c] = 0]
    /\ step' = Step("drain", c, deviceImei[c], <<>>, TRUE, <<>>)
    /\ UNCHANGED <<sockets, deviceImei, buffer, clients, pendingCommands, timers,
                   inflight, now, codecVars>>

BackpressureNext ==
    \/ Accept(1)
    \/ \E data \in {LoginFrame(ImeiBytesA), HeartbeatFrame} : StalledData(1, data)
    \/ Drain(1)
    \/ Close(1)

BackpressureSpec == Init /\ [][BackpressureNext]_vars

----------------------------------------------------------------------------
(* The methods that send one fixed command *)

\* String(n) of a non-negative integer, as ASCII
RECURSIVE decimal(_)
decimal(n) == IF n < 10 THEN <<48 + n>> ELSE decimal(n \div 10) \o <<48 + (n % 10)>>

\* the command a method of ConcoxV5Server passes to sendCommand; the location
\* request is the route of the HTTP API, which calls sendCommand itself
convenienceCommand(action, intervalMinutes) ==
    CASE action = "mobilizeVehicle" -> <<82, 69, 76, 65, 89, 44, 48, 35>>
      [] action = "immobilizeVehicle" -> <<82, 69, 76, 65, 89, 44, 49, 35>>
      [] action = "requestDeviceStatus" -> <<83, 84, 65, 84, 85, 83, 35>>
      [] action = "requestLocation" -> <<87, 72, 69, 82, 69, 35>>
      [] action = "requestBatteryVoltage" ->
             <<66, 65, 84, 80, 65, 82, 65, 77, 44, 48, 35>>
      [] action = "requestDeviceParameters" -> <<80, 65, 82, 65, 77, 35>>
      [] action = "configureBatteryReporting" ->
             <<66, 65, 84, 73, 78, 84, 69, 82, 86, 65, 76, 44>>
             \o decimal(intervalMinutes) \o <<35>>

\* the methods that log before they call sendCommand
convenienceLogs(action, imei) ==
    IF action \in {"requestBatteryVoltage", "requestDeviceParameters",
                   "configureBatteryReporting"}
    THEN <<Ev("log", "requesting", 0, imei, -1, -1, <<>>)>>
    ELSE <<>>

ConvenienceActions ==
    {"mobilizeVehicle", "immobilizeVehicle", "requestDeviceStatus",
     "requestLocation", "requestBatteryVoltage", "requestDeviceParameters",
     "configureBatteryReporting"}

\* the interval of configureBatteryReporting; 30 is its default
Intervals == {5, 30, 1440}

Convenience(action, imei, intervalMinutes, serialNumber) ==
    SendCommandBy(action,
                  <<Ev("call", action, 0, imei, -1, intervalMinutes, <<>>)>>
                  \o convenienceLogs(action, imei),
                  imei, convenienceCommand(action, intervalMinutes), serialNumber,
                  1)

\* The single-file server of the repository has three of the methods
legacyConvenienceCommand(action) ==
    CASE action = "mobilizeVehicle" -> <<82, 69, 76, 65, 89, 44, 49, 35>>
      [] action = "immobilizeVehicle" -> <<82, 69, 76, 65, 89, 44, 48, 35>>
      [] action = "requestDeviceStatus" -> <<83, 84, 65, 84, 85, 83, 35>>

LegacyActions == {"mobilizeVehicle", "immobilizeVehicle", "requestDeviceStatus"}

\* its sendCommand keeps no pending command and arms no timer
LegacyConvenience(action, imei, serialNumber) ==
    LET command == legacyConvenienceCommand(action)
        clientData == clientsGet(clients, imei)
        call == Ev("call", action, 0, imei, -1, -1, <<>>)
    IN  /\ step' =
               IF clientData = {}
               THEN Step(action, 0, imei, command, FALSE,
                         <<call, Ev("log", "not_connected", 0, imei, -1, -1, <<>>)>>)
               ELSE LET socket == (CHOOSE e \in clientData : TRUE).socket
                    IN  Step(action, socket, imei, command, TRUE,
                             <<call,
                               Ev("write", "", socket, Null, -1, -1,
                                  commandPacket(command, serialNumber)),
                               Ev("log", "sent", socket, imei, serialNumber, -1,
                                  <<>>)>>)
        /\ UNCHANGED <<sockets, deviceImei, buffer, clients, pendingCommands,
                       timers, inflight, now, codecVars, writableLength>>

ConvenienceNext ==
    \/ Accept(1)
    \/ Data(1, LoginFrame(ImeiBytesA))
    \/ Close(1)
    \/ \E action \in ConvenienceActions : \E imei \in CommandTargets :
       \E intervalMinutes \in Intervals :
           Convenience(action, imei, intervalMinutes, 7)
    \/ \E action \in LegacyActions : \E imei \in CommandTargets :
           LegacyConvenience(action, imei, 7)

ConvenienceSpec == Init /\ [][ConvenienceNext]_vars

----------------------------------------------------------------------------
(* The builders, the command encoder and the identifier decoder, each      *)
(* applied once to an input drawn from a set                               *)

AckBuilders ==
    {"login", "heartbeat", "alarm", "alarmHVT001", "lbsAlarm", "wifi",
     "timeCalibration", "fileTransfer", "externalDevice", "externalModule"}

\* sequences with equal and unequal bytes, with the start and stop bytes
\* in them, and the ends of the 16-bit range
AckSerials == {0, 1, 255, 256, 3338, 30840, 31097, 65535}

ModuleIds == {0, 9, 255}

ackProtocolNumber(builder) ==
    CASE builder = "login" -> PROTOCOL_NUMBERS.LOGIN
      [] builder = "heartbeat" -> PROTOCOL_NUMBERS.HEARTBEAT
      [] builder = "alarm" -> PROTOCOL_NUMBERS.ALARM
      [] builder = "alarmHVT001" -> PROTOCOL_NUMBERS.ALARM_HVT001
      [] builder = "lbsAlarm" -> PROTOCOL_NUMBERS.LBS_ALARM
      [] builder = "wifi" -> PROTOCOL_NUMBERS.WIFI
      [] builder = "timeCalibration" -> PROTOCOL_NUMBERS.TIME_CALIBRATION
      [] builder = "fileTransfer" -> PROTOCOL_NUMBERS.LARGE_FILE_TRANSFER
      [] builder = "externalDevice" -> PROTOCOL_NUMBERS.EXTERNAL_DEVICE_TRANSFER
      [] builder = "externalModule" -> PROTOCOL_NUMBERS.EXTERNAL_MODULE_TRANSMISSION

\* the acknowledgment as the handler of the opcode calls its builder
buildAck(builder, serialNumber, moduleId, t) ==
    CASE builder = "login" -> createLoginAck(serialNumber)
      [] builder = "heartbeat" -> createHeartbeatAck(serialNumber)
      [] builder = "alarm" -> createAlarmAck(serialNumber)
      [] builder = "alarmHVT001" -> createAlarmHVT001Ack(serialNumber)
      [] builder = "lbsAlarm" -> createLBSAlarmAck(serialNumber)
      [] builder = "wifi" -> createWiFiResponse(serialNumber)
      [] builder = "timeCalibration" ->
             createTimeCalibrationResponse(serialNumber, dateFields(t))
      [] builder = "fileTransfer" -> createFileTransferAck(serialNumber, TRUE)
      [] builder = "externalDevice" -> createExternalDeviceResponse(serialNumber, Null)
      [] builder = "externalModule" ->
             createExternalModuleResponse(serialNumber, moduleId, Null)

BuildAck(builder, serialNumber, moduleId, t) ==
    /\ step = NoStep
    /\ step' = Step("ack", 0, Null, <<>>, TRUE,
                    <<Ev("return", builder, 0, Null, serialNumber,
                         ackProtocolNumber(builder),
                         buildAck(builder, serialNumber, moduleId, t))>>)
    /\ UNCHANGED <<sockets, deviceImei, buffer, clients, pendingCommands, timers,
                   inflight, now, codecVars, writableLength>>

\* a command text of n bytes
TextOf(n) == [i \in 1..n |-> 65 + (i % 26)]

\* text lengths around the step from the short to the long frame format
TextLengths == {0, 1, 7, 243, 244, 245}

\* text lengths around the end of the 16-bit length field
HeaderTextLengths == TextLengths \cup {65523, 65524}

\* the packet sendCommand builds for a command text
EncodeCommand(commandBytes, serialNumber) ==
    /\ step = NoStep
    /\ step' = Step("encode", 0, Null, commandBytes, TRUE,
                    <<Ev("return", "command", 0, Null, serialNumber,
                         Len(commandBytes), commandPacket(commandBytes, serialNumber))>>)
    /\ UNCHANGED <<sockets, deviceImei, buffer, clients, pendingCommands, timers,
                   inflight, now, codecVars, writableLength>>

\* the header sendCommand builds for a command text of textLength bytes
EncodeHeader(textLength) ==
    /\ step = NoStep
    /\ step' = Step("header", 0, Null, <<>>, TRUE,
                    <<Ev("return", "header", 0, Null, -1, textLength,
                         commandHeader(textLength))>>)
    /\ UNCHANGED <<sockets, deviceImei, buffer, clients, pendingCommands, timers,
                   inflight, now, codecVars, writableLength>>

\* 15 decimal digits packed into 8 bytes, two digits per byte, after a 0
RECURSIVE packPairs(_)
packPairs(str) ==
    IF str = <<>> THEN <<>>
    ELSE <<str[1] * 16 + str[2]>> \o packPairs(SubSeq(str, 3, Len(str)))

packIMEI(digits) == packPairs(<<0>> \o digits)

\* 15-digit identifiers with every pair of leading digits
Identifiers ==
    {<<a, b>> \o <<5, 1, 7, 2, 1, 0, 7, 4, 6, 1, 0, 8, 3>> : a \in 0..9, b \in 0..9}

DecodeIdentifier(digits) ==
    /\ step = NoStep
    /\ step' = Step("extractIMEI", 0, extractIMEI(packIMEI(digits)), digits, TRUE, <<>>)
    /\ UNCHANGED <<sockets, deviceImei, buffer, clients, pendingCommands, timers,
                   inflight, now, codecVars, writableLength>>

\* a 0x22 frame with the given raw coordinates and upper course/status byte
GpsFrame(rawLat, rawLon, byte1) ==
    deviceFrame(34, <<26, 1, 1, 0, 0, 0, 201,
                      hi8(rawLat \div 65536), lo8(rawLat \div 65536), hi8(rawLat),
                      lo8(rawLat),
                      hi8(rawLon \div 65536), lo8(rawLon \div 65536), hi8(rawLon),
                      lo8(rawLon),
                      0, byte1, 90, 1, 148, 0, 0, 1, 0, 0, 2>>, 257)

ParseGPSLocation(packet) ==
    /\ step = NoStep
    /\ step' = Step("parseGPSLocation", 0, Null, packet,
                    parseGPSLocation(packet).gpsPositioned,
                    <<Ev("return", "latitude", 0, Null, -1,
                         parseGPSLocation(packet).latitude, <<>>),
                      Ev("return", "longitude", 0, Null, -1,
                         parseGPSLocation(packet).longitude, <<>>)>>)
    /\ UNCHANGED <<sockets, deviceImei, buffer, clients, pendingCommands, timers,
                   inflight, now, codecVars, writableLength>>

\* A 0x2C frame with two access points, the first with the SSID "AB"
WifiFrame(strength1, strength2) ==
    deviceFrame(44, <<24, 1, 2, 3, 4, 5>> \o [i \in 1..46 |-> 0]
                    \o <<2, 1, 2, 3, 4, 5, 6, strength1, 2, 65, 66,
                          6, 5, 4, 3, 2, 1, strength2, 0>>, 258)

ParseWiFi(packet) ==
    /\ step = NoStep
    /\ step' = Step("parseWiFi", 0, Null, packet, ~parseWiFi(packet).threw,
                    [i \in 1..Len(parseWiFi(packet).signals) |->
                        Ev("return", "signal", 0, Null, -1,
                           parseWiFi(packet).signals[i], <<>>)])
    /\ UNCHANGED <<sockets, deviceImei, buffer, clients, pendingCommands, timers,
                   inflight, now, codecVars, writableLength>>

\* A 0x21 frame as the manual lays it out: server flag, the length of the
\* response in one byte (short frame) or two (long frame), the response
ResponseFrameWith(long, declared, text) ==
    IF long
    THEN longDeviceFrame(33, <<0, 0, 0, 1, hi8(declared), lo8(declared)>> \o text, 9)
    ELSE deviceFrame(33, <<0, 0, 0, 1, declared % 256>> \o text, 9)

ParseCommandResponse(packet) ==
    /\ step = NoStep
    /\ step' = Step("parseCommandResponse", 0, Null, packet,
                    ~parseCommandResponse(packet).threw,
                    <<Ev("return", "response", 0, Null,
                         parseCommandResponse(packet).serialNumber, -1,
                         parseCommandResponse(packet).response)>>)
    /\ UNCHANGED <<sockets, deviceImei, buffer, clients, pendingCommands, timers,
                   inflight, now, codecVars, writableLength>>

\* the bytes of the receive buffers: the start bytes, small lengths, a stop byte
BufferBytes == {120, 121, 0, 1, 13}

MaxBufferLen == 6

Buffers == UNION {[1..n -> BufferBytes] : n \in 0..MaxBufferLen}

\* a frame with its last two bytes replaced
withStopBytes(frame, stop) == Slice(frame, 0, Len(frame) - 2) \o stop

StopBytes == {<<13, 10>>, <<0, 0>>, <<13, 0>>, <<10, 13>>}

\* whole frames, well terminated or not, alone or with a byte behind them
TerminatedBuffers ==
    {withStopBytes(f, stop) \o tail :
        f \in {LoginFrame(ImeiBytesA), HeartbeatFrame, VoltageFrame,
               longDeviceFrame(148, <<0, 4, 226>>, 260)},
        stop \in StopBytes, tail \in {<<>>, <<120>>}}

\* one call of parsePacket, and the "data" loop run on the same buffer with
\* the buffer it leaves
ParsePacket(buf) ==
    /\ step = NoStep
    /\ step' =
          LET R == receiveLoop([imei |-> Null, clients |-> {}, pending |-> {},
                                buffer |-> buf, trace |-> <<>>, threw |-> FALSE],
                               1, 0)
          IN  Step("parsePacket", 0, Null, buf, parsePacket(buf).kind # "null",
                   <<Ev("return", parsePacket(buf).kind, 0, Null, -1,
                        Len(parsePacket(buf).remaining), parsePacket(buf).packet)>>
                   \o R.trace
                   \o <<Ev("return", "buffer", 0, Null, -1, Len(R.buffer),
                           R.buffer)>>)
    /\ UNCHANGED <<sockets, deviceImei, buffer, clients, pendingCommands, timers,
                   inflight, now, codecVars, writableLength>>

\* instants in the middle of a month, and the zones the server may run in
Instants == {3 * 86400000 + 45296000, 10 * 86400000 + 86399000}

TimezoneOffsets == {0, -60, -330, 300}

\* new Date() and createTimeCalibrationResponse on a server in some zone
TimeCalibrationReply(t, serialNumber, timezoneOffset) ==
    /\ step = NoStep
    /\ step' = Step("timeCalibration", 0, Null, <<>>, TRUE,
                    <<Ev("call", "date", 0, Null, serialNumber, t, <<>>),
                      Ev("call", "timezone", 0, Null, serialNumber, timezoneOffset,
                         <<>>),
                      Ev("return", "reply", 0, Null, serialNumber, 138,
                         createTimeCalibrationResponse(
                             serialNumber, localDateFields(t, timezoneOffset)))>>)
    /\ UNCHANGED <<sockets, deviceImei, buffer, clients, pendingCommands, timers,
                   inflight, now, codecVars, writableLength>>

\* response data of n bytes
ResponseData(n) == [i \in 1..n |-> (i * 7) % 256]

ResponseDataLengths == {1, 2, 40, 251, 252, 253}

\* createExternalDeviceResponse or createExternalModuleResponse with data,
\* and parsePacket on the frame it builds
BuildResponse(builder, serialNumber, moduleId, responseData) ==
    /\ step = NoStep
    /\ step' =
          LET frame == IF builder = "externalDevice"
                       THEN createExternalDeviceResponse(serialNumber, responseData)
                       ELSE createExternalModuleResponse(serialNumber, moduleId,
                                                         responseData)
          IN  Step("response", 0, Null, responseData, TRUE,
                   <<Ev("return", builder, 0, Null, serialNumber, moduleId, frame),
                     Ev("return", parsePacket(frame).kind, 0, Null, -1,
                        Len(parsePacket(frame).remaining), parsePacket(frame).packet)>>)
    /\ UNCHANGED <<sockets, deviceImei, buffer, clients, pendingCommands, timers,
                   inflight, now, codecVars, writableLength>>

\* calculateCRCITU over a whole buffer
ComputeCRC(data) ==
    /\ step = NoStep
    /\ step' = Step("calculateCRCITU", 0, Null, data, TRUE,
                    <<Ev("return", "crc", 0, Null, -1,
                         calculateCRCITU(data, 0, Len(data)), <<>>)>>)
    /\ UNCHANGED <<sockets, deviceImei, buffer, clients, pendingCommands, timers,
                   inflight, now, codecVars, writableLength>>

FunctionNext ==
    \/ \E data \in {<<5, 1, 0, 1>>, <<5, 19, 0, 1>>, <<>>,
                     <<49, 50, 51, 52, 53, 54, 55, 56, 57>>} : ComputeCRC(data)
    \/ \E rawLat \in {1, 40362018, 162000000, 162000001} :
          \E rawLon \in {1, 205299990, 324000000, 324000001} :
             \E byte1 \in {0, 4, 8, 12, 16, 20, 24, 28} :
                ParseGPSLocation(GpsFrame(rawLat, rawLon, byte1))
    \/ \E strength \in 0..255 : ParseWiFi(WifiFrame(strength, 255 - strength))
    \/ \E buf \in (IF step = NoStep THEN Buffers \cup TerminatedBuffers ELSE {}) :
          ParsePacket(buf)
    \/ \E t \in Instants : \E serialNumber \in AckSerials :
          \E timezoneOffset \in TimezoneOffsets :
             TimeCalibrationReply(t, serialNumber, timezoneOffset)
    \/ \E builder \in {"externalDevice", "externalModule"} :
          \E serialNumber \in {1, 3338} : \E moduleId \in {9} :
             \E n \in ResponseDataLengths :
                BuildResponse(builder, serialNumber, moduleId, ResponseData(n))
    \/ \E long \in BOOLEAN : \E n \in {0, 2, 7, 40} : \E extra \in {0, 3} :
          ParseCommandResponse(ResponseFrameWith(long, n + extra, TextOf(n)))
    \/ \E builder \in AckBuilders : \E serialNumber \in AckSerials :
          \E moduleId \in ModuleIds : \E t \in {0, MaxTime} :
             BuildAck(builder, serialNumber, moduleId, t)
    \/ \E n \in TextLengths : \E serialNumber \in Serials :
          EncodeCommand(TextOf(n), serialNumber)
    \/ \E commandBytes \in Commands : \E serialNumber \in Serials :
          EncodeCommand(commandBytes, serialNumber)
    \/ \E n \in HeaderTextLengths : EncodeHeader(n)
    \/ \E digits \in Identifiers : DecodeIdentifier(digits)

FunctionSpec == Init /\ [][FunctionNext]_vars

----------------------------------------------------------------------------
(* Reading a step *)

\* the positions of the step's trace that hold a log event called name
LogsNamed(st, name) ==
    {i \in 1..Len(st.trace) : st.trace[i].kind = "log" /\ st.trace[i].name = name}

\* the sockets the step wrote to
WrittenTo(st) ==
    {st.trace[i].socket : i \in {j \in 1..Len(st.trace) : st.trace[j].kind = "write"}}

\* an open connection carries this identifier
BoundOpen(imei) == \E c \in Sockets : sockets[c] = "open" /\ deviceImei[c] = imei

----------------------------------------------------------------------------
(* Registry claims, checked under Spec *)

\* C1: when a connection closes, a registry entry that points at another,
\* still open connection stays in the registry: the close removes the entry
\* of the closing connection's identifier only if it points at that connection.
C1_CloseRemovesOnlyOwnEntry ==
    [][\A a \in Sockets :
          (sockets[a] = "open" /\ sockets'[a] = "closed")
          => \A e \in clients :
                 (e.socket # a /\ sockets[e.socket] = "open") => e \in clients']_vars

\* C5: sendCommand for an identifier that no open connection is bound to
\* returns false, writes nothing, adds no pending entry and arms no timer.
C5_DisconnectedRefused ==
    [][(step'.op = "sendCommand" /\ ~BoundOpen(step'.imei))
       => /\ step'.result = FALSE
          /\ WrittenTo(step') = {}
          /\ pendingCommands' = pendingCommands
          /\ timers' = timers]_vars

\* C6: once a connection is bound to an identifier, no later frame changes
\* the binding, and the connection is never registered under two keys.
C6_OneIdentifierPerSession ==
    [][\A c \in Sockets :
          /\ deviceImei[c] # Null => deviceImei'[c] = deviceImei[c]
          /\ Cardinality({e \in clients' : e.socket = c}) <= 1]_vars

\* the last login event of a data step, as <<socket, imei>>
LastLogin(st) ==
    LET logins == LogsNamed(st, "login")
        last == CHOOSE i \in logins : \A j \in logins : j <= i
    IN  <<st.socket, st.trace[last].imei>>

IsLoginStep(st) == st.op = "data" /\ LogsNamed(st, "login") # {}

\* C7: a login for identifier I handled on connection B leaves the registry
\* mapping I to B and B alone, changes the state of no connection, and a
\* sendCommand(I) writes to the connection the registry maps I to, which
\* right after the login is B, whichever connection held I before.
C7_ReLoginReplaces ==
    [][/\ IsLoginStep(step')
          => /\ clientsGet(clients', LastLogin(step')[2])
                  = {[imei |-> LastLogin(step')[2], socket |-> LastLogin(step')[1],
                      lastBatteryVoltage |-> NullVoltage]}
             /\ sockets' = sockets
       /\ (step'.op = "sendCommand" /\ step'.result)
          => WrittenTo(step') = {e.socket : e \in clientsGet(clients, step'.imei)}
       /\ (IsLoginStep(step) /\ step'.op = "sendCommand"
           /\ step'.imei = LastLogin(step)[2])
          => /\ step'.result
             /\ WrittenTo(step') = {LastLogin(step)[1]}]_vars

\* C7 witness: B logged in with the identifier that the open connection A
\* holds, and the command for it was then written to B.
C7_Witness ==
    /\ step.op = "sendCommand"
    /\ step.result
    /\ \E a \in Sockets : \E b \in Sockets :
          /\ a # b
          /\ sockets[a] = "open"
          /\ sockets[b] = "open"
          /\ deviceImei[a] = step.imei
          /\ deviceImei[b] = step.imei
          /\ WrittenTo(step) = {b}
          /\ b < a

\* C8: the registry holds at most one entry per identifier, and the entry
\* names one connection.
C8_OneSessionPerIdentifier ==
    \A e1 \in clients : \A e2 \in clients :
        /\ e1.imei = e2.imei => e1 = e2
        /\ e1.socket \in Sockets

\* C8 witness: two open connections announced the same identifier and the
\* registry holds one entry for it.
C8_Witness ==
    \E a \in Sockets : \E b \in Sockets :
        /\ a # b
        /\ sockets[a] = "open"
        /\ sockets[b] = "open"
        /\ Truthy(deviceImei[a])
        /\ deviceImei[a] = deviceImei[b]
        /\ Cardinality(clientsGet(clients, deviceImei[a])) = 1

\* C31: the connection that logged in last with identifier I stays the one
\* the registry maps I to for as long as it is open and no other connection
\* logs in with I, whatever the other connections do, and sendCommand(I)
\* returns true and writes to it.
C31_CurrentSessionReachable ==
    [][\A c \in Sockets : \A e \in clients :
          (/\ e.socket = c
           /\ sockets[c] = "open"
           /\ deviceImei[c] = e.imei)
          => /\ (/\ sockets'[c] = "open"
                 /\ ~(IsLoginStep(step') /\ step'.socket # c))
                => \E f \in clients' : f.imei = e.imei /\ f.socket = c
             /\ (step'.op = "sendCommand" /\ step'.imei = e.imei)
                => step'.result /\ WrittenTo(step') = {c}]_vars

\* C33: a 0x21 or 0x15 response received on a connection is matched only
\* against the pending commands of that connection: a match needs an entry
\* of the sequence on the receiving connection, and the pending commands of
\* every other connection stay as they were, the same sequence included.
C33_PendingPerConnection ==
    [][step'.op = "data"
       => /\ \A b \in Sockets \ {step'.socket} :
                pendingCommands'[b] = pendingCommands[b]
          /\ \A i \in LogsNamed(step', "matched") :
                pendingGet(pendingCommands[step'.socket], step'.trace[i].serial)
                    # {}]_vars

\* a response arrived on one connection while another held its sequence
C33_Witness ==
    /\ step.op = "data"
    /\ \E i \in LogsNamed(step, "unmatched") :
          \E b \in Sockets \ {step.socket} :
             pendingGet(pendingCommands[b], step.trace[i].serial) # {}

----------------------------------------------------------------------------
(* Pending-command claims, checked under CommandSpec *)

\* the command of timer t is in flight: written, not answered, not expired
InFlight(t) ==
    [socket |-> t.socket, serialNumber |-> t.serialNumber,
     sentAt |-> t.due - COMMAND_TIMEOUT_MS] \in inflight

\* C2: a response bearing q that arrives on the connection less than 60
\* seconds after a command with sequence q was written to it, and is the
\* first such response, logs exactly one match with its latency and leaves
\* no pending entry for q.
C2_ResponseWithinTimeoutMatches ==
    [][\A m \in inflight :
          (/\ step'.op = "data"
           /\ step'.socket = m.socket
           /\ now - m.sentAt < COMMAND_TIMEOUT_MS
           /\ \E i \in 1..Len(step'.trace) :
                 /\ step'.trace[i].kind = "log"
                 /\ step'.trace[i].name \in {"matched", "unmatched"}
                 /\ step'.trace[i].serial = m.serialNumber)
          => /\ Cardinality({i \in LogsNamed(step', "matched") :
                                /\ step'.trace[i].serial = m.serialNumber
                                /\ step'.trace[i].n >= 0}) = 1
             /\ pendingGet(pendingCommands'[m.socket], m.serialNumber) = {}]_vars

\* C3: when 60 seconds have passed since a command was written and no
\* response bearing its sequence has arrived, its timer logs exactly one
\* timeout for it and the pending entry of its sequence is gone.
C3_UnansweredCommandTimesOut ==
    [][\A t \in timers :
          (t \notin timers' /\ InFlight(t))
          => /\ Cardinality({i \in LogsNamed(step', "timeout") :
                                step'.trace[i].serial = t.serialNumber}) = 1
             /\ pendingGet(pendingCommands'[t.socket], t.serialNumber) = {}]_vars

\* C32: the timer of a command acts on the pending entry of its own send
\* only: an entry that a later send with the same sequence created stays, and
\* a timer whose command is no longer in flight (its response was matched)
\* logs no timeout.
C32_TimerActsOnOwnEntry ==
    [][\A t \in timers :
          (t \notin timers' /\ step'.op = "timer")
          => /\ \A e \in pendingCommands[t.socket] :
                    (e.serialNumber = t.serialNumber
                     /\ e.sentAt # t.due - COMMAND_TIMEOUT_MS)
                    => e \in pendingCommands'[t.socket]
             /\ ~InFlight(t) => LogsNamed(step', "timeout") = {}]_vars

\* C9: no timer callback armed on a connection runs after the connection's
\* close was handled, so no timeout is logged for a closed connection.
C9_CloseCancelsTimers ==
    step.op = "timer" => sockets[step.socket] # "closed"

----------------------------------------------------------------------------
(* Receive-loop claims, checked under LoopSpec *)

\* the positions of the step's trace where parsePacket returned a frame
ParsedAt(st) ==
    {i \in 1..Len(st.trace) : st.trace[i].kind = "parse" /\ st.trace[i].name = "frame"}

Resynced(st) ==
    \E i \in 1..Len(st.trace) : st.trace[i].kind = "parse" /\ st.trace[i].name = "resync"

\* the frames of the step in the order the loop parsed them, end to end
RECURSIVE ParsedBytes(_, _)
ParsedBytes(st, i) ==
    IF i > Len(st.trace) THEN <<>>
    ELSE (IF i \in ParsedAt(st) THEN st.trace[i].bytes ELSE <<>>)
         \o ParsedBytes(st, i + 1)

\* the events of frame p: from its parse up to the next parse or the end
EventsOf(st, p) ==
    {i \in p..Len(st.trace) : \A q \in ParsedAt(st) : q > p => i < q}

\* C10: the frames of a data event are parsed in the order of their bytes,
\* each is dispatched right after it was parsed, and the acknowledgment of a
\* login or heartbeat frame is written before the next frame is parsed.
C10_FramesInOrderAckBeforeNext ==
    [][step'.op = "data" =>
        /\ ~Resynced(step') =>
               ParsedBytes(step', 1) \o buffer'[step'.socket]
                   = buffer[step'.socket] \o step'.data
        /\ \A p \in ParsedAt(step') :
              LET f == step'.trace[p].bytes
                  acks == {i \in EventsOf(step', p) : step'.trace[i].kind = "write"}
              IN  /\ p < Len(step'.trace)
                  /\ step'.trace[p + 1].kind = "log"
                  /\ step'.trace[p + 1].name = "received"
                  /\ step'.trace[p + 1].n = At(f, getHeaderSize(f))
                  /\ At(f, getHeaderSize(f)) \in {1, 19} /\ Len(f) >= 12
                     => /\ Cardinality(acks) = 1
                        /\ \A i \in acks :
                              /\ At(step'.trace[i].bytes, 3) = At(f, getHeaderSize(f))
                              /\ Slice(step'.trace[i].bytes, 4, 6)
                                     = Slice(f, Len(f) - 6, Len(f) - 4)]_vars

\* C10 witness: one data event carried two acknowledged frames, and the
\* first acknowledgment was written before the second frame was parsed.
C10_Witness ==
    /\ step.op = "data"
    /\ \E p \in ParsedAt(step) : \E q \in ParsedAt(step) : \E w \in 1..Len(step.trace) :
          /\ p < w
          /\ w < q
          /\ step.trace[w].kind = "write"
          /\ At(step.trace[q].bytes, 3) = 19
          /\ At(step.trace[p].bytes, 3) = 1

----------------------------------------------------------------------------
(* Dispatch claims, checked under DispatchSpec *)

AckOpcodes == {1, 19, 38, 39, 25, 44, 138, 141, 155, 156}

SilentOpcodes == {34, 40, 33, 21, 148}

OpcodeOf(f) == At(f, getHeaderSize(f))

\* the writes and the error logs among the events of frame p
WritesOf(st, p) == {i \in EventsOf(st, p) : st.trace[i].kind = "write"}

ErrorsOf(st, p) ==
    {i \in EventsOf(st, p) : st.trace[i].kind = "log" /\ st.trace[i].name = "error"}

C13_OutboundCrcCorrect ==
    \A i \in 1..Len(step.trace) :
        step.trace[i].kind = "write" =>
            LET b == step.trace[i].bytes
            IN  readUInt16BE(b, Len(b) - 4) = calculateCRCITU(b, 2, Len(b) - 4)

\* C14: every dispatched frame that is long enough to hold a sequence and a
\* CRC either carries the CRC-ITU of its bytes from the length field through
\* the sequence, or a CRC warning is logged for it.
C14_CrcMatchesOrWarned ==
    step.op = "data" =>
        \A p \in ParsedAt(step) :
            LET f == step.trace[p].bytes
            IN  Len(f) >= 10 =>
                    \/ readUInt16BE(f, Len(f) - 4) = calculateCRCITU(f, 2, Len(f) - 4)
                    \/ \E i \in EventsOf(step, p) :
                          /\ step.trace[i].kind = "log"
                          /\ step.trace[i].name = "crc_warning"

\* the frames whose parser throws: the login frame with a 4-byte payload
\* is long enough for every read of parseLogin
ThrowingFrames == ShortFrames \ {ShortLoginFrame}

\* C15: when the parser of a frame throws, the connection stays open, no
\* exception leaves the data handler, the error is logged, and every
\* complete frame that follows in the receive buffer is dispatched in order.
C15_ParserErrorsContained ==
    [][step'.op = "data"
       /\ (\E p \in ParsedAt(step') : step'.trace[p].bytes \in ThrowingFrames)
       => /\ sockets' = sockets
          /\ step'.result
          /\ \A p \in ParsedAt(step') :
                /\ step'.trace[p].bytes \in ThrowingFrames => ErrorsOf(step', p) # {}
                /\ p < Len(step'.trace)
                /\ step'.trace[p + 1].kind = "log"
                /\ step'.trace[p + 1].name = "received"
                /\ step'.trace[p + 1].n = OpcodeOf(step'.trace[p].bytes)
          /\ ParsedBytes(step', 1) \o buffer'[step'.socket]
                 = buffer[step'.socket] \o step'.data
          /\ parsePacket(buffer'[step'.socket]).kind = "null"]_vars

\* C15 witness: in one data event the parser of a frame threw and the
\* heartbeat frame behind it was acknowledged.
C15_Witness ==
    /\ step.op = "data"
    /\ step.result
    /\ \E p \in ParsedAt(step) : \E q \in ParsedAt(step) :
          /\ p < q
          /\ step.trace[p].bytes \in ThrowingFrames
          /\ ErrorsOf(step, p) # {}
          /\ step.trace[q].bytes = HeartbeatFrame
          /\ WritesOf(step, q) # {}

\* C16: a login frame too short to hold the 8-byte identifier, the sequence
\* and the CRC (fewer than 18 bytes in the short format) is dropped: no
\* connection's identifier changes, the registry is unchanged and the
\* connection stays open.
C16_InvalidLoginDropped ==
    [][step'.op = "data"
       /\ (\A p \in ParsedAt(step') :
              /\ OpcodeOf(step'.trace[p].bytes) = PROTOCOL_NUMBERS.LOGIN
              /\ Len(step'.trace[p].bytes) < 18)
       => /\ deviceImei' = deviceImei
          /\ clients' = clients
          /\ sockets' = sockets]_vars

\* C23: when the login frame of scenario S1 arrives, the connection is bound
\* to identifier 355172107461053 and the bytes written back are exactly
\* 78 78 05 01 00 01 D9 DC 0D 0A.
C23_LoginScenarioS1 ==
    step.op = "data" /\ step.data = S1LoginFrame =>
        /\ deviceImei[step.socket] = <<3, 5, 5, 1, 7, 2, 1, 0, 7, 4, 6, 1, 0, 5, 3>>
        /\ \E p \in ParsedAt(step) :
              /\ Cardinality(WritesOf(step, p)) = 1
              /\ \A i \in 1..Len(step.trace) :
                    step.trace[i].kind = "write"
                    => /\ i \in WritesOf(step, p)
                       /\ step.trace[i].socket = step.socket
                       /\ step.trace[i].bytes
                              = <<120, 120, 5, 1, 0, 1, 217, 220, 13, 10>>

\* C23 witness: the login frame of scenario S1 arrived and was acknowledged.
C23_Witness ==
    /\ step.op = "data"
    /\ step.data = S1LoginFrame
    /\ WrittenTo(step) = {step.socket}

\* C25: the handler of a shutdown request leaves the open connections open,
\* and the process exits only when the registry is empty or time has passed
\* since the request up to a deadline.
C25_GracefulShutdown ==
    [][\A i \in 1..Len(step'.trace) :
          step'.trace[i].kind = "exit"
          => /\ \A c \in Sockets : sockets[c] = "open" => sockets'[c] = "open"
             /\ clients = {} \/ step'.trace[i].n > step'.trace[1].n]_vars

\* C26: a connection whose queued outbound bytes exceed the watermark is no
\* longer open: the session has closed itself.
C26_QueueBoundedWhileOpen ==
    \A c \in Sockets : sockets[c] = "open" => writableLength[c] <= Watermark

\* the command string the specification gives for a convenience action
ExpectedCommand(action, n) ==
    CASE action = "immobilizeVehicle" -> <<82, 69, 76, 65, 89, 44, 49, 35>>
      [] action = "mobilizeVehicle" -> <<82, 69, 76, 65, 89, 44, 48, 35>>
      [] action = "requestDeviceStatus" -> <<83, 84, 65, 84, 85, 83, 35>>
      [] action = "requestLocation" -> <<87, 72, 69, 82, 69, 35>>
      [] action = "requestBatteryVoltage" ->
             <<66, 65, 84, 80, 65, 82, 65, 77, 44, 48, 35>>
      [] action = "configureBatteryReporting" ->
             <<66, 65, 84, 73, 78, 84, 69, 82, 86, 65, 76, 44>> \o decimal(n)
             \o <<35>>

\* C27: immobilizeVehicle, mobilizeVehicle, requestDeviceStatus, the location
\* request, requestBatteryVoltage and configureBatteryReporting(n) hand
\* "RELAY,1#", "RELAY,0#", "STATUS#", "WHERE#", "BATPARAM,0#" and
\* "BATINTERVAL,n#" to sendCommand for the identifier they were given, and
\* what is written to the device is the encoding of that string.
C27_FixedCommandStrings ==
    (/\ step.trace # <<>>
     /\ step.trace[1].kind = "call"
     /\ step.trace[1].name # "requestDeviceParameters")
    => LET call == step.trace[1]
           expected == ExpectedCommand(call.name, call.n)
       IN  /\ step.op = call.name
           /\ step.imei = call.imei
           /\ step.data = expected
           /\ \A i \in 1..Len(step.trace) :
                  step.trace[i].kind = "write"
                  => \E q \in Serials :
                        step.trace[i].bytes = commandPacket(expected, q)

\* C30: every registry entry points to an open connection: once the close
\* event of a connection has been handled, no registry key maps to it,
\* whatever frames it sent, several logins with different identifiers and a
\* login with the all-zero identifier included.
C30_NoEntryForClosedConnection ==
    \A e \in clients : sockets[e.socket] # "closed"

\* C18: once a voltage was recorded for the 15-digit identifier of a
\* connection, getBatteryVoltage for that identifier stays non-null while the
\* connection stays open with that identifier, whatever frames arrive on it.
C18_VoltagePersists ==
    [][\A c \in Sockets :
          /\ sockets[c] = "open"
          /\ sockets'[c] = "open"
          /\ Len(deviceImei[c]) = 15
          /\ \A k \in 1..15 : deviceImei[c][k] \in 0..9
          /\ deviceImei'[c] = deviceImei[c]
          /\ getBatteryVoltage(clients, deviceImei[c]) # NullVoltage
          => getBatteryVoltage(clients', deviceImei[c]) # NullVoltage]_vars

----------------------------------------------------------------------------
(* The default case of the dispatch, checked under CommandSpec *)

\* C17: a frame whose opcode is none of the 15 handled ones is only logged:
\* nothing is written for it, and a data event that holds only such frames
\* leaves the identifiers, the registry, the pending commands and their
\* timers unchanged and the connection open; the loop goes on to the next
\* frame.
C17_UnknownOpcodeOnlyLogged ==
    [][step'.op = "data"
       => /\ \A p \in ParsedAt(step') :
                OpcodeOf(step'.trace[p].bytes) \notin AckOpcodes \cup SilentOpcodes
                => /\ WritesOf(step', p) = {}
                   /\ \E i \in EventsOf(step', p) :
                         /\ step'.trace[i].kind = "log"
                         /\ step'.trace[i].name = "unknown"
          /\ (ParsedAt(step') # {}
              /\ \A p \in ParsedAt(step') :
                    OpcodeOf(step'.trace[p].bytes) \notin AckOpcodes \cup SilentOpcodes)
             => /\ deviceImei' = deviceImei
                /\ clients' = clients
                /\ pendingCommands' = pendingCommands
                /\ timers' = timers
                /\ sockets' = sockets
          /\ (\E p \in ParsedAt(step') :
                 OpcodeOf(step'.trace[p].bytes) \notin AckOpcodes \cup SilentOpcodes)
             => /\ step'.result
                /\ ParsedBytes(step', 1) \o buffer'[step'.socket]
                       = buffer[step'.socket] \o step'.data
                /\ parsePacket(buffer'[step'.socket]).kind = "null"]_vars

\* C17 witness: a frame with opcode 0x99 was logged as unknown on a
\* connection that is bound to an identifier and has a pending command.
C17_Witness ==
    /\ step.op = "data"
    /\ step.data = UnknownFrame
    /\ LogsNamed(step, "unknown") # {}
    /\ Truthy(deviceImei[step.socket])
    /\ pendingCommands[step.socket] # {}
    /\ clients # {}

----------------------------------------------------------------------------
(* Builder, encoder and decoder claims, checked under FunctionSpec *)

\* C12: the acknowledgment each builder returns for a 16-bit sequence is
\* parsed by parsePacket as one frame that holds all of its bytes, with the
\* builder's opcode, and its bytes [length - 6, length - 4) hold the sequence.
C12_AckRoundTrip ==
    step.op = "ack" =>
        LET e == step.trace[1]
            r == parsePacket(e.bytes)
        IN  /\ r.kind = "frame"
            /\ r.packet = e.bytes
            /\ r.remaining = <<>>
            /\ r.protocolNumber = e.n
            /\ readUInt16BE(e.bytes, Len(e.bytes) - 6) = e.serial

\* C12 witness: the file-transfer builder, whose acknowledgment is a long
\* frame, was given the sequence 0x0D0A.
C12_Witness ==
    /\ step.op = "ack"
    /\ step.trace[1].name = "fileTransfer"
    /\ step.trace[1].serial = 3338
    /\ isLongPacket(step.trace[1].bytes)

\* the encoder's output for a text of step.trace[1].n bytes is framed by the
\* rule: length field 1 + 1 + command_length + 2 + 2 with command_length
\* 4 + n + 2, in one byte after 0x78 0x78 when below 256 and in two bytes
\* after 0x79 0x79 otherwise, then opcode 0x80; a whole packet is recovered
\* by parsePacket as one frame with nothing left over
FramedByRule ==
    LET b == step.trace[1].bytes
        commandLength == 4 + step.trace[1].n + 2
        packetLength == 1 + 1 + commandLength + 2 + 2
    IN  /\ packetLength < 256
           => Slice(b, 0, 2) = <<120, 120>> /\ At(b, 2) = packetLength /\ At(b, 3) = 128
        /\ packetLength >= 256
           => /\ Slice(b, 0, 2) = <<121, 121>>
              /\ readUInt16BE(b, 2) = packetLength
              /\ At(b, 4) = 128
        /\ step.op = "encode"
           => /\ Len(b) = getHeaderSize(b) + packetLength + 2
              /\ parsePacket(b).kind = "frame"
              /\ parsePacket(b).packet = b
              /\ parsePacket(b).remaining = <<>>
              /\ parsePacket(b).protocolNumber = PROTOCOL_NUMBERS.ONLINE_COMMAND

C21_HemisphereSigns ==
    step.op = "parseGPSLocation" =>
        LET byte1 == At(step.data, getHeaderSize(step.data) + 1 + 16)
        IN  /\ step.trace[1].n > 0 <=> And(byte1, 4) # 0
            /\ step.trace[2].n < 0 <=> And(byte1, 8) # 0

\* C22: a 0x22 frame whose latitude is outside [-90, 90] degrees (raw value
\* above 162000000) or whose longitude is outside [-180, 180] degrees (raw
\* value above 324000000) is parsed as not positioned.
C22_OutOfRangeNotPositioned ==
    step.op = "parseGPSLocation" =>
        LET dataStart == getHeaderSize(step.data) + 1
        IN  \/ readUInt32BE(step.data, dataStart + 7) > 162000000
            \/ readUInt32BE(step.data, dataStart + 11) > 324000000
            => ~step.result

\* C24 as stated: calculateCRCITU over the bytes 05 01 00 01 returns 0xE0D1.
C24_SmokeTestE0D1 ==
    step.op = "calculateCRCITU" /\ step.data = <<5, 1, 0, 1>>
    => step.trace[1].n = 57553

\* C28: the signal of every access point of a 0x2C frame is its strength
\* byte b read as a signed two's-complement byte: b when b <= 127, b - 256
\* when b >= 128.
C28_SignalIsSignedByte ==
    step.op = "parseWiFi"
    => /\ Len(step.trace) = 2
       /\ \A k \in 1..2 :
             LET b == At(step.data, IF k = 1 THEN 63 ELSE 73)
             IN  step.trace[k].n = IF b <= 127 THEN b ELSE b - 256

\* C29: in a 0x21 frame the response text starts right after the length
\* field that follows the 4-byte server flag (1 byte in a short frame, 2 in
\* a long one), runs for the declared length but not past frame length - 6,
\* and holds no byte of the length field.
C29_ResponseAfterLengthField ==
    step.op = "parseCommandResponse"
    => LET packet == step.data
           long == packet[1] = 121
           field == (IF long THEN 4 ELSE 3) + 1 + 4
           declared == IF long THEN 256 * At(packet, field) + At(packet, field + 1)
                       ELSE At(packet, field)
           start == field + (IF long THEN 2 ELSE 1)
           end == IF start + declared < Len(packet) - 6
                  THEN start + declared ELSE Len(packet) - 6
       IN  step.trace[1].bytes = Slice(packet, start, end)

\* C34: a call of parsePacket returns null or a remaining buffer strictly
\* shorter than its input, by at least 1 byte on a resync and by the frame's
\* length, at least 5 bytes, on a frame; the loop of a data event therefore
\* calls it at most once per byte of the buffer.
C34_ParsePacketShrinksBuffer ==
    step.op = "parsePacket"
    => LET r == step.trace[1]
           consumed == Len(step.data) - r.n
       IN  /\ r.name = "resync" => consumed >= 1
           /\ r.name = "frame"
              => /\ consumed >= 5
                 /\ r.bytes = Slice(step.data, 0, consumed)
           /\ r.name = "null" <=> ~step.result
           /\ Cardinality({i \in 2..Len(step.trace) :
                               step.trace[i].kind = "parse"}) <= Len(step.data)

\* a frame of the least size, 5 bytes, with a byte left behind it
C34_Witness ==
    /\ step.op = "parsePacket"
    /\ step.trace[1].name = "frame"
    /\ Len(step.trace[1].bytes) = 5
    /\ step.trace[1].n = 1

\* C35: the buffer a data event leaves is shorter than 5 bytes, or starts
\* with 79 79 and is 5 bytes long, or starts with 78 78 or 79 79 and is
\* shorter than header size + declared length + 2: it holds no whole frame.
C35_ResidualHoldsNoFrame ==
    step.op = "parsePacket"
    => LET b == step.trace[Len(step.trace)].bytes
       IN  \/ Len(b) < 5
           \/ b[1] = 121 /\ b[2] = 121 /\ Len(b) = 5
           \/ b[1] = 120 /\ b[2] = 120 /\ Len(b) < 3 + b[3] + 2
           \/ b[1] = 121 /\ b[2] = 121 /\ Len(b) < 4 + (256 * b[3] + b[4]) + 2

\* garbage went, and the 5 bytes of a long header stay for the next event
C35_Witness ==
    /\ step.op = "parsePacket"
    /\ Len(step.data) = 6
    /\ step.trace[2].kind = "parse"
    /\ step.trace[2].name = "resync"
    /\ Len(step.trace[Len(step.trace)].bytes) = 5
    /\ step.trace[Len(step.trace)].bytes[1] = 121

\* the trace of the "data" loop on a buffer, without the bytes the parse
\* events carry
DispatchOf(buf) ==
    LET R == receiveLoop([imei |-> Null, clients |-> {}, pending |-> {},
                          buffer |-> buf, trace |-> <<>>, threw |-> FALSE], 1, 0)
    IN  [i \in 1..Len(R.trace) |->
            IF R.trace[i].kind = "parse" THEN [R.trace[i] EXCEPT !.bytes = <<>>]
            ELSE R.trace[i]]

\* C37: a buffer that starts with 78 78 or 79 79 and holds header size +
\* declared length + 2 bytes gives a frame of exactly that many bytes and
\* advances by as many, whatever the last two bytes are; the frame is
\* dispatched, and a frame with room for opcode, serial and CRC as the same
\* frame ending in 0D 0A is.
C37_StopBytesNotRequired ==
    step.op = "parsePacket"
    => LET buf == step.data
           long == At(buf, 0) = 121
           headerSize == IF long THEN 4 ELSE 3
           lengthValue == IF long THEN readUInt16BE(buf, 2) ELSE At(buf, 2)
           totalSize == headerSize + lengthValue + 2
           r == step.trace[1]
       IN  (/\ Len(buf) >= 4
            /\ At(buf, 0) \in {120, 121}
            /\ At(buf, 1) = At(buf, 0)
            /\ Len(buf) >= totalSize)
           => /\ r.name = "frame"
              /\ r.bytes = Slice(buf, 0, totalSize)
              /\ r.n = Len(buf) - totalSize
              /\ step.trace[2] = Ev("parse", "frame", 1, Null, -1,
                                    At(buf, headerSize), Slice(buf, 0, totalSize))
              /\ step.trace[3].kind = "log" /\ step.trace[3].name = "received"
              /\ lengthValue >= 5
                 => DispatchOf(buf)
                    = DispatchOf(withStopBytes(Slice(buf, 0, totalSize), <<13, 10>>)
                                 \o SliceFrom(buf, totalSize))

\* a heartbeat frame that ends in 00 00 came out whole and was answered
C37_Witness ==
    /\ step.op = "parsePacket"
    /\ step.data = withStopBytes(HeartbeatFrame, <<0, 0>>) \o <<120>>
    /\ step.trace[1].bytes = withStopBytes(HeartbeatFrame, <<0, 0>>)
    /\ step.trace[1].n = 1
    /\ \E i \in 1..Len(step.trace) : step.trace[i].kind = "write"

\* C38: the reply to a 0x8A frame at instant t with sequence s is
\* 78 78 0B 8A YY MM DD hh mm ss s_hi s_lo crc crc 0D 0A with the UTC fields
\* of t, whatever the time zone of the server.
C38_ReplyCarriesUTC ==
    step.op = "timeCalibration"
    => LET t == step.trace[1].n
           s == step.trace[1].serial
           head == <<120, 120, 11, 138>> \o dateFields(t) \o <<hi8(s), lo8(s)>>
           crc == calculateCRCITU(head, 2, 12)
       IN  step.trace[3].bytes = head \o <<hi8(crc), lo8(crc)>> \o <<13, 10>>

\* C40: the frame createExternalDeviceResponse or
\* createExternalModuleResponse builds around non-empty response data has a
\* length field equal to the number of bytes from the opcode through the
\* CRC, and parsePacket returns it as one frame that consumes all its bytes.
C40_DataResponsesWellFramed ==
    (step.op = "response" /\ Len(step.data) >= 1)
    => LET frame == step.trace[1].bytes
           long == At(frame, 0) = 121
           headerSize == IF long THEN 4 ELSE 3
           lengthField == IF long THEN readUInt16BE(frame, 2) ELSE At(frame, 2)
       IN  /\ lengthField = Len(frame) - headerSize - 2
           /\ step.trace[2].name = "frame"
           /\ step.trace[2].bytes = frame
           /\ step.trace[2].n = 0

\* C24: calculateCRCITU over the bytes 05 01 00 01 returns 0xD9DC, the CRC
\* bytes of the login acknowledgment for sequence 1.
C24_SmokeTestD9DC ==
    step.op = "calculateCRCITU" /\ step.data = <<5, 1, 0, 1>>
    => step.trace[1].n = 55772

\* C24 witness: calculateCRCITU was applied to 05 01 00 01.
C24_Witness ==
    /\ step.op = "calculateCRCITU"
    /\ step.data = <<5, 1, 0, 1>>
    /\ step.trace[1].n \in 0..65535

----------------------------------------------------------------------------
(* Codec claims, checked under CodecSpec *)

\* the receive loop run once over bytes on a fresh connection
wholeRun(bytes) ==
    receiveLoop([imei |-> Null, clients |-> {}, pending |-> {}, buffer |-> bytes,
                 trace |-> <<>>, threw |-> FALSE], 1, 0)

SawInvalidStart(trace) ==
    \E i \in 1..Len(trace) : trace[i].kind = "parse" /\ trace[i].name = "resync"

\* C36: bytes without 0x78 and 0x79 in front of a well-formed frame are
\* discarded, exactly those, and the frame comes out unchanged, whatever
\* the number of the bytes and the chunks they arrive in; a resync runs no
\* handler and writes nothing.
C36_GarbageDiscardedFrameKept ==
    [][step'.op = "data"
       => LET frame == SliceFrom(stream, indexOf(stream, 120, 0))
              received == Slice(stream, 0, fed')
          IN  /\ fed' = Len(stream) => rxframes' = <<frame>> /\ buffer'[1] = <<>>
              /\ fed' < Len(stream) => rxframes' = <<>>
              /\ \E k \in 0..Len(received) :
                     /\ buffer'[1] = SliceFrom(received, k)
                     /\ rxframes' = <<>> => k <= indexOf(stream, 120, 0)
              /\ \A i \in 1..Len(step'.trace) :
                     (step'.trace[i].kind = "parse"
                      /\ step'.trace[i].name = "resync")
                     => /\ step'.trace[i].bytes = <<>>
                        /\ i < Len(step'.trace)
                           => step'.trace[i + 1].kind = "parse"]_vars

\* 7 bytes of garbage and the login frame arrived in a chunk of 4 and the
\* rest; the loop resynchronised and the frame came out whole
C36_Witness ==
    /\ stream = GarbageOf(7) \o LoginFrame(ImeiBytesA)
    /\ cuts = <<4, Len(stream) - 4>>
    /\ SawInvalidStart(step.trace)
    /\ rxframes = <<LoginFrame(ImeiBytesA)>>
    /\ buffer[1] = <<>>

\* C39: the receive buffer of a session never holds more than 64 KiB, and
\* once the bytes received start with a header that declares a frame of
\* more than 64 KiB the session is closed with a frame_too_large event and
\* buffers nothing.
C39_ReceiveBufferCapped ==
    /\ \A c \in Sockets : Len(buffer[c]) <= 64 * 1024
    /\ (/\ step.op = "data"
        /\ fed >= 4
        /\ rxframes = <<>>
        /\ At(stream, 0) = 121 /\ At(stream, 1) = 121
        /\ 4 + readUInt16BE(stream, 2) + 2 > 64 * 1024)
       => /\ sockets[1] = "closed"
          /\ buffer[1] = <<>>
          /\ \E i \in 1..Len(step.trace) : step.trace[i].name = "frame_too_large"

\* C4 as stated: whatever the stream and however it is cut into chunks, the
\* loop has parsed the same frames and holds the same residual buffer as
\* when the bytes delivered so far arrive in one chunk.
C4_AnyStreamSameFramesAndResidual ==
    LET W == wholeRun(Slice(stream, 0, fed))
    IN  /\ rxframes = FramesIn(W.trace, 1)
        /\ buffer[1] = W.buffer

\* C4: whatever the stream and however it is cut into chunks, the loop has
\* parsed the same frames as when the bytes delivered so far arrive in one
\* chunk; it holds the same residual buffer when that one run meets no
\* invalid start bytes; and a stream of one well-formed frame, however
\* cut, yields that one frame and an empty residual buffer.
C4_ChunkingInvariance ==
    LET W == wholeRun(Slice(stream, 0, fed))
    IN  /\ rxframes = FramesIn(W.trace, 1)
        /\ ~SawInvalidStart(W.trace) => buffer[1] = W.buffer
        /\ (stream = LoginFrame(ImeiBytesA) /\ fed = Len(stream))
           => (rxframes = <<stream>> /\ buffer[1] = <<>>)

\* C4 witness: the login frame arrived in chunks of 7, 6 and the rest and
\* came out as one frame with nothing left in the buffer.
C4_Witness ==
    /\ stream = LoginFrame(ImeiBytesA)
    /\ cuts = <<7, 6, Len(stream) - 13>>
    /\ fed = Len(stream)
    /\ rxframes = <<stream>>
    /\ buffer[1] = <<>>

====
